---------------------------- MODULE Spec2Model ----------------------------
(***************************************************************************)
(* A model of snap-receipt's print orchestration (the receipt screen's     *)
(* handleEpsonPrint and handlePrintToAllPrinters), of the receipt screen's *)
(* auto-save / auto-print effects, and of the daily order-number counter   *)
(* kept in Redis (utils/orderNumber.ts).                                   *)
(*                                                                         *)
(* The specifications of the module:                                       *)
(*   Spec        one call of a print handler against the printer SDK       *)
(*   SpecStall   the same, with awaited SDK calls that may never settle    *)
(*   SpecScreen  the receipt screen's renders, effects and timers          *)
(*   SpecOrder   several devices calling the order-number functions        *)
(*   SpecMismatch  the total-mismatch flag, on IEEE 754 doubles            *)
(*   SpecTotals  calculateTotals, on IEEE 754 doubles                      *)
(*   SpecShape   the validation of a structured receipt                    *)
(*   SpecText    the classification of the lines of a text receipt         *)
(*   SpecPrint   the receipt printed as text with a template               *)
(*   SpecRender  the HTML document and the printed text of one receipt     *)
(*   SpecClock   the same renders, with the wall clock advancing           *)
(*   SpecTest    one call of handleSimpleTestPrint                         *)
(*   SpecCapture one capture-processing attempt of the capture screen      *)
(***************************************************************************)
EXTENDS Integers, Sequences, FiniteSets, TLC

VARIABLES
    \* ---- the receipt screen's print handlers and the printer SDK ----
    printers,            \* usePrintersDiscovery().printers, as the handler's closure sees it
    pc,                  \* the position of the running handler
    handler,             \* "none" | "epson" | "all"
    isAutoPrint,         \* handleEpsonPrint's parameter
    savedPrinterMac,     \* what getEpsonPrinterMac() returned
    target,              \* handleEpsonPrint: let target
    deviceName,          \* handleEpsonPrint: let deviceName / validDeviceName passed to Printer
    step,                \* handleEpsonPrint: let step
    idx,                 \* handlePrintToAllPrinters: index of printerInfo in printers
    copy,                \* loop variable of the copies loop
    printCopies,         \* const printCopies
    useManualTextPrint,  \* handleEpsonPrint: let useManualTextPrint
    results,             \* handlePrintToAllPrinters: const results
    alerts,              \* the Alert.alert calls made, in order
    isEpsonPrinting,     \* useState flag
    isPrintingToAll,     \* useState flag
    isTestPrinting,      \* useState flag
    connected,           \* the targets the SDK holds an open connection to
    printerLog,          \* the SDK calls the current Printer instance received, with outcome
    instances,           \* number of `new Printer(...)` evaluated
    sent,                \* per processed target of print-to-all: copies asked and sent
    \* ---- the receipt screen's effects ----
    screen,
    \* ---- the order-number counter ----
    order,
    \* ---- the receipt's pure functions: their input and what they returned ----
    calc

printVars == <<printers, pc, handler, isAutoPrint, savedPrinterMac, target, deviceName,
               step, idx, copy, printCopies, useManualTextPrint, results, alerts,
               isEpsonPrinting, isPrintingToAll, isTestPrinting, connected, printerLog,
               instances, sent>>

vars == <<printVars, screen, order, calc>>

-----------------------------------------------------------------------------
(* Bounds *)

\* the longest discovery list explored
MaxPrinters == 2

\* the largest stored copies setting explored
MaxStoredCopies == 2

\* the number of renders of the receipt screen explored
MaxRenders == 3

\* the number of taps on the save and print buttons explored
MaxTaps == 1

\* the number of devices sharing the order counter
MaxDevices == 2

\* the number of order-number calls explored, over all devices
MaxOrderCalls == 3

-----------------------------------------------------------------------------
(* Values *)

NoValue == "null"

\* Discovered printers: {target, deviceName, name}. The second has no names, the
\* third a target of blanks only (the handlers guard against it).
PrinterInfos ==
    { [target |-> "BT:01",  deviceName |-> "TM-m30", name |-> "Kitchen"],
      [target |-> "TCP:02", deviceName |-> "",       name |-> ""],
      [target |-> "  ",     deviceName |-> "TM-T88", name |-> ""] }

\* String.prototype.trim on the targets and names of the model
Trim(s) == IF s = "  " THEN "" ELSE s

\* Errors the SDK throws: an Error object with a message, as a sequence of words
\* (<<>> is an error without message).
SdkErrors ==
    { [message |-> <<"invalid", "parameter">>],
      [message |-> <<"ERR_CONNECT">>],
      [message |-> <<>>] }

InvalidTargetError == [message |-> <<"Invalid", "printer", "target">>]

\* String.prototype.includes, on words: phrase is a contiguous part of msg
Includes(msg, phrase) ==
    \E i \in 0..(Len(msg) - Len(phrase)) :
        \A j \in 1..Len(phrase) : msg[i + j] = phrase[j]

\* mutant: the text of the error is dropped for a fixed one
UnknownErrorText(e) == <<"Unknown", "error">>

\* error?.message || String(error) || 'Unknown error'
ErrorText(e) == IF e.message # <<>> THEN e.message ELSE <<"Error">>

\* What an SDK call can do: succeed, or throw one of SdkErrors
Ok == [message |-> <<"ok">>]
Outcomes == {Ok} \cup SdkErrors


\* What AsyncStorage holds under the default-printer key, as getEpsonPrinterMac
\* returns it: null, a discovered target, or a target that discovery does not list.
SavedMacs == {NoValue, "BT:01", "USB:09"}

\* What AsyncStorage holds under the copies key: nothing (-1), or a number
StoredCopies == -1..MaxStoredCopies

MaxCopiesSetting == 10

\* getPrintCopies: isNaN(parsed) || parsed < 1 ? 1 : Math.min(10, parsed)
GetPrintCopies(stored) ==
    IF stored = -1 \/ stored < 1 THEN 1
    ELSE IF stored < MaxCopiesSetting THEN stored ELSE MaxCopiesSetting

\* printerInfo.deviceName || printerInfo.name || 'Printer'
DeviceNameOf(p) ==
    IF p.deviceName # "" THEN p.deviceName
    ELSE IF p.name # "" THEN p.name ELSE "Printer"

\* printerInfo.deviceName || printerInfo.name || printerInfo.target  (the catch of print-to-all)
FailedNameOf(p) ==
    IF p.deviceName # "" THEN p.deviceName
    ELSE IF p.name # "" THEN p.name ELSE p.target

\* name && name.trim() !== '' ? name.trim() : 'Printer'
ValidDeviceName(n) == IF n # "" /\ Trim(n) # "" THEN Trim(n) ELSE "Printer"

\* printers?.find(p => p.target === t): the index of the first match, 0 if none
FindPrinter(t) ==
    IF \E i \in DOMAIN printers : printers[i].target = t
    THEN CHOOSE i \in DOMAIN printers :
            /\ printers[i].target = t
            /\ \A j \in 1..(i - 1) : printers[j].target # t
    ELSE 0

\* mutant: every failed connect is retried without the timeout
AnyConnectError(e) == TRUE

\* connectError?.message?.includes('parameter') || connectError?.message?.includes('invalid')
IsConnectParameterError(e) ==
    \/ Includes(e.message, <<"parameter">>)
    \/ Includes(e.message, <<"invalid">>)

\* errorMsg.includes('invalid parameter') || errorMsg.includes('invalid') || errorMsg.includes('parameter')
\* with errorMsg = viewShotError?.message || String(viewShotError) || ''
IsViewShotParameterError(e) ==
    LET errorMsg == ErrorText(e) IN
    \/ Includes(errorMsg, <<"invalid", "parameter">>)
    \/ Includes(errorMsg, <<"invalid">>)
    \/ Includes(errorMsg, <<"parameter">>)

\* the catch of handleEpsonPrint: error.message, else `Error: ${error.name}`
EpsonErrorMessage(e) == IF e.message # <<>> THEN e.message ELSE <<"Error:", "Error">>

\* mutant: a feed after every copy, the last included
FeedAfterEveryCopy(c, n) == c <= n

\* if (copy < printCopies) await printer.addFeedLine(2)
FeedBetweenCopies(c, n) == c < n

\* for (let copy = 1; copy <= printCopies; copy++): another round follows copy c
MoreCopies(c, n) == c + 1 <= n

Alert(title, atStep, text, lines) ==
    [title |-> title, step |-> atStep, text |-> text, lines |-> lines]

NoPrintersAlert == Alert("No Printers Found", "", <<>>, <<>>)
NoModuleAlert == Alert("Printer Module Not Found", "", <<>>, <<>>)
NoViewAlert == Alert("Printer", "", <<"Printable", "view", "not", "ready">>, <<>>)

\* One SDK call on the current Printer instance and what it did
Call(op, out) == [op |-> op, out |-> out]

\* The number of sendData calls of the log that succeeded
RECURSIVE CountSent(_)
CountSent(log) ==
    IF log = <<>> THEN 0
    ELSE CountSent(Tail(log))
         + (IF Head(log).op = "sendData" /\ Head(log).out = Ok THEN 1 ELSE 0)

\* the target of the Printer instance the running handler works with
CurrentTarget ==
    IF handler = "all"
    THEN (IF idx \in DOMAIN printers THEN Trim(printers[idx].target) ELSE NoValue)
    ELSE Trim(target)

-----------------------------------------------------------------------------
(* handleEpsonPrint *)

unchangedAll == <<idx, results, isPrintingToAll, isTestPrinting, sent>>
unchangedCall == <<printers, handler, isAutoPrint, savedPrinterMac, target, deviceName,
                   instances>>

\* onPress={() => handleEpsonPrint(false)}, or the auto-print timer's handleEpsonPrint(true)
StartEpsonPrint(auto) ==
    /\ pc = "idle"
    /\ handler' = "epson"
    /\ isAutoPrint' = auto
    /\ pc' = "findPrinter"
    /\ step' = "finding printer"
    /\ UNCHANGED <<printers, savedPrinterMac, target, deviceName, copy, printCopies,
                   useManualTextPrint, alerts, isEpsonPrinting, connected, printerLog,
                   instances>>
    /\ UNCHANGED unchangedAll

\* the target handleEpsonPrint picks: the saved default printer, else the first discovered
PickTarget(mac) ==
    IF mac # NoValue THEN mac
    ELSE IF Len(printers) > 0 /\ printers[1].target # "" THEN printers[1].target
    ELSE NoValue

PickDeviceName(mac) ==
    IF mac # NoValue
    THEN (IF FindPrinter(mac) # 0 THEN DeviceNameOf(printers[FindPrinter(mac)]) ELSE "Printer")
    ELSE IF Len(printers) > 0 THEN DeviceNameOf(printers[1]) ELSE "Printer"

\* mutant: the missing-target check is left out
TargetAlwaysFound(t) == FALSE

\* if (!target): no saved default printer and nothing discovered
NoTarget(t) == t = NoValue

EpsonFindPrinter ==
    /\ pc = "findPrinter" /\ handler = "epson"
    /\ \E mac \in SavedMacs :
        /\ savedPrinterMac' = mac
        /\ target' = PickTarget(mac)
        /\ deviceName' = PickDeviceName(mac)
        /\ IF NoTarget(PickTarget(mac))
           THEN /\ alerts' = Append(alerts, NoPrintersAlert)
                /\ pc' = "done"
                /\ UNCHANGED step
           ELSE /\ pc' = "loadModule"
                /\ step' = "loading printer module"
                /\ UNCHANGED alerts
    /\ UNCHANGED <<printers, handler, isAutoPrint, copy, printCopies, useManualTextPrint,
                   isEpsonPrinting, connected, printerLog, instances>>
    /\ UNCHANGED unchangedAll

EpsonLoadModule ==
    /\ pc = "loadModule" /\ handler = "epson"
    /\ \E loaded \in BOOLEAN :
        IF loaded
        THEN /\ pc' = "getViewTag"
             /\ step' = "getting view tag"
             /\ UNCHANGED alerts
        ELSE /\ alerts' = Append(alerts, NoModuleAlert)
             /\ pc' = "done"
             /\ UNCHANGED step
    /\ UNCHANGED unchangedCall
    /\ UNCHANGED <<copy, printCopies, useManualTextPrint, isEpsonPrinting, connected,
                   printerLog>>
    /\ UNCHANGED unchangedAll

\* the catch block of handleEpsonPrint, entered with the error thrown at `step`
EpsonCatch(e) ==
    /\ isEpsonPrinting' = FALSE
    /\ alerts' = Append(alerts, Alert("Print Failed", step, EpsonErrorMessage(e), <<>>))
    /\ pc' = "done"
    /\ UNCHANGED step

\* lines 215-251: view tag, busy flag, target validation, copies, new Printer
EpsonGetViewTag ==
    /\ pc = "getViewTag" /\ handler = "epson"
    /\ \E viewTag \in BOOLEAN, stored \in StoredCopies :
        IF ~viewTag
        THEN /\ alerts' = Append(alerts, NoViewAlert)
             /\ pc' = "done"
             /\ UNCHANGED <<step, isEpsonPrinting, printCopies, instances, printerLog,
                            deviceName>>
        ELSE IF Trim(target) = ""
        THEN /\ EpsonCatch(InvalidTargetError)
             /\ UNCHANGED <<printCopies, instances, printerLog, deviceName>>
        ELSE /\ isEpsonPrinting' = TRUE
             /\ printCopies' = (IF isAutoPrint THEN GetPrintCopies(stored) ELSE 1)
             /\ deviceName' =
                  ValidDeviceName(IF FindPrinter(target) # 0
                                  THEN DeviceNameOf(printers[FindPrinter(target)])
                                  ELSE deviceName)
             /\ instances' = instances + 1
             /\ printerLog' = <<>>
             /\ pc' = "connect"
             /\ step' = "connecting to printer"
             /\ UNCHANGED alerts
    /\ UNCHANGED <<printers, handler, isAutoPrint, savedPrinterMac, target, copy,
                   useManualTextPrint, connected>>
    /\ UNCHANGED unchangedAll

\* await printer.connect(5000), and what its catch decides
EpsonConnect ==
    /\ pc = "connect" /\ handler = "epson"
    /\ \E out \in Outcomes :
        /\ printerLog' = Append(printerLog, Call("connect5000", out))
        /\ IF out = Ok
           THEN /\ connected' = connected \cup {CurrentTarget}
                /\ copy' = 1
                /\ pc' = "viewShot"
                /\ step' = "capturing view and adding to print buffer"
                /\ UNCHANGED <<alerts, isEpsonPrinting>>
           ELSE IF IsConnectParameterError(out)
           THEN /\ pc' = "connectRetry"
                /\ UNCHANGED <<connected, copy, step, alerts, isEpsonPrinting>>
           ELSE /\ EpsonCatch(out)
                /\ UNCHANGED <<connected, copy>>
    /\ UNCHANGED unchangedCall
    /\ UNCHANGED <<printCopies, useManualTextPrint>>
    /\ UNCHANGED unchangedAll

\* await printer.connect(), the retry without the timeout
EpsonConnectRetry ==
    /\ pc = "connectRetry" /\ handler = "epson"
    /\ \E out \in Outcomes :
        /\ printerLog' = Append(printerLog, Call("connect", out))
        /\ IF out = Ok
           THEN /\ connected' = connected \cup {CurrentTarget}
                /\ copy' = 1
                /\ pc' = "viewShot"
                /\ step' = "capturing view and adding to print buffer"
                /\ UNCHANGED <<alerts, isEpsonPrinting>>
           ELSE /\ EpsonCatch(out)
                /\ UNCHANGED <<connected, copy>>
    /\ UNCHANGED unchangedCall
    /\ UNCHANGED <<printCopies, useManualTextPrint>>
    /\ UNCHANGED unchangedAll

\* await Printer.addViewShot(printer, ...), and the fallback decision of its catch
EpsonViewShot ==
    /\ pc = "viewShot" /\ handler = "epson"
    /\ \E out \in Outcomes :
        /\ printerLog' = Append(printerLog, Call("addViewShot", out))
        /\ IF out = Ok
           THEN /\ useManualTextPrint' = FALSE
                /\ pc' = "cut"
                /\ step' = "adding paper cut"
                /\ UNCHANGED <<alerts, isEpsonPrinting>>
           ELSE IF IsViewShotParameterError(out)
           THEN /\ useManualTextPrint' = TRUE
                /\ pc' = "textPrint"
                /\ step' = "printing receipt manually as text"
                /\ UNCHANGED <<alerts, isEpsonPrinting>>
           ELSE /\ EpsonCatch(out)
                /\ useManualTextPrint' = FALSE
    /\ UNCHANGED unchangedCall
    /\ UNCHANGED <<printCopies, copy, connected>>
    /\ UNCHANGED unchangedAll

\* await printReceiptAsText(printer, ...): the column-text render, which rethrows
EpsonTextPrint ==
    /\ pc = "textPrint" /\ handler = "epson"
    /\ \E out \in Outcomes :
        /\ printerLog' = Append(printerLog, Call("printReceiptAsText", out))
        /\ IF out = Ok
           THEN /\ pc' = "cut"
                /\ step' = "adding paper cut"
                /\ UNCHANGED <<alerts, isEpsonPrinting>>
           ELSE EpsonCatch(out)
    /\ UNCHANGED unchangedCall
    /\ UNCHANGED <<printCopies, copy, connected, useManualTextPrint>>
    /\ UNCHANGED unchangedAll

\* await printer.addCut() in its own try: a failure is logged and ignored
EpsonCut ==
    /\ pc = "cut" /\ handler = "epson"
    /\ \E out \in Outcomes :
        printerLog' = Append(printerLog, Call("addCut", out))
    /\ pc' = "send"
    /\ step' = "sending data to printer"
    /\ UNCHANGED unchangedCall
    /\ UNCHANGED <<printCopies, copy, connected, useManualTextPrint, alerts, isEpsonPrinting>>
    /\ UNCHANGED unchangedAll

\* await printer.sendData(), then the loop's decision
EpsonSend ==
    /\ pc = "send" /\ handler = "epson"
    /\ \E out \in Outcomes :
        /\ printerLog' = Append(printerLog, Call("sendData", out))
        /\ IF out = Ok
           THEN /\ IF FeedBetweenCopies(copy, printCopies)
                   THEN pc' = "feed" /\ UNCHANGED <<step, copy>>
                   ELSE IF MoreCopies(copy, printCopies)
                   THEN /\ pc' = "viewShot"
                        /\ copy' = copy + 1
                        /\ step' = "capturing view and adding to print buffer"
                   ELSE /\ pc' = "disconnect"
                        /\ step' = "disconnecting from printer"
                        /\ UNCHANGED copy
                /\ UNCHANGED <<alerts, isEpsonPrinting>>
           ELSE EpsonCatch(out) /\ UNCHANGED copy
    /\ UNCHANGED unchangedCall
    /\ UNCHANGED <<printCopies, connected, useManualTextPrint>>
    /\ UNCHANGED unchangedAll

\* await printer.addFeedLine(2) between copies, then copy++
EpsonFeed ==
    /\ pc = "feed" /\ handler = "epson"
    /\ \E out \in Outcomes :
        /\ printerLog' = Append(printerLog, Call("addFeedLine", out))
        /\ IF out = Ok
           THEN /\ IF MoreCopies(copy, printCopies)
                   THEN /\ pc' = "viewShot"
                        /\ copy' = copy + 1
                        /\ step' = "capturing view and adding to print buffer"
                   ELSE /\ pc' = "disconnect"
                        /\ step' = "disconnecting from printer"
                        /\ UNCHANGED copy
                /\ UNCHANGED <<alerts, isEpsonPrinting>>
           ELSE EpsonCatch(out) /\ UNCHANGED copy
    /\ UNCHANGED unchangedCall
    /\ UNCHANGED <<printCopies, connected, useManualTextPrint>>
    /\ UNCHANGED unchangedAll

\* await printer.disconnect(); setIsEpsonPrinting(false)
EpsonDisconnect ==
    /\ pc = "disconnect" /\ handler = "epson"
    /\ \E out \in Outcomes :
        /\ printerLog' = Append(printerLog, Call("disconnect", out))
        /\ IF out = Ok
           THEN /\ connected' = connected \ {CurrentTarget}
                /\ isEpsonPrinting' = FALSE
                /\ pc' = "done"
                /\ UNCHANGED <<alerts, step>>
           ELSE EpsonCatch(out) /\ UNCHANGED connected
    /\ UNCHANGED unchangedCall
    /\ UNCHANGED <<printCopies, copy, useManualTextPrint>>
    /\ UNCHANGED unchangedAll

-----------------------------------------------------------------------------
(* handlePrintToAllPrinters *)

unchangedEpson == <<isAutoPrint, savedPrinterMac, target, step, useManualTextPrint,
                    isEpsonPrinting, isTestPrinting>>

\* if (!printers || printers.length === 0)
NoPrinters(list) == Len(list) = 0

\* lines 410-443: the three early returns, then the busy flag and the empty results
StartPrintToAll ==
    /\ pc = "idle"
    /\ handler' = "all"
    /\ \E loaded \in BOOLEAN, viewTag \in BOOLEAN :
        IF NoPrinters(printers)
        THEN /\ alerts' = Append(alerts, NoPrintersAlert)
             /\ pc' = "done"
             /\ UNCHANGED <<isPrintingToAll, results, idx, sent>>
        ELSE IF ~loaded
        THEN /\ alerts' = Append(alerts, NoModuleAlert)
             /\ pc' = "done"
             /\ UNCHANGED <<isPrintingToAll, results, idx, sent>>
        ELSE IF ~viewTag
        THEN /\ alerts' = Append(alerts, NoViewAlert)
             /\ pc' = "done"
             /\ UNCHANGED <<isPrintingToAll, results, idx, sent>>
        ELSE /\ isPrintingToAll' = TRUE
             /\ results' = <<>>
             /\ sent' = <<>>
             /\ idx' = 1
             /\ pc' = "nextPrinter"
             /\ UNCHANGED alerts
    /\ UNCHANGED <<printers, deviceName, copy, printCopies, connected, printerLog, instances>>
    /\ UNCHANGED unchangedEpson

\* mutant: the first failure ends the loop
AbortAfterFailure(i) == Len(printers) + 1

\* the index the loop goes on with after the catch of the per-printer try
AfterFailure(i) == i + 1

\* the catch inside the loop: push the failure, go on with the next printer
AllCatch(e) ==
    /\ results' = Append(results, [printer |-> FailedNameOf(printers[idx]),
                                   success |-> FALSE,
                                   error |-> ErrorText(e)])
    /\ sent' = Append(sent, [copies |-> printCopies, sends |-> CountSent(printerLog'),
                              thrown |-> e])
    /\ idx' = AfterFailure(idx)
    /\ pc' = "nextPrinter"

\* lines 446-462: the loop head, the names, the target validation, new Printer
AllNextPrinter ==
    /\ pc = "nextPrinter" /\ handler = "all"
    /\ idx <= Len(printers)
    /\ LET printerInfo == printers[idx]
           validTarget == IF printerInfo.target # "" /\ Trim(printerInfo.target) # ""
                          THEN Trim(printerInfo.target) ELSE NoValue
       IN  /\ deviceName' = DeviceNameOf(printerInfo)
           /\ printerLog' = <<>>
           /\ printCopies' = 0
           /\ copy' = 0
           /\ IF validTarget = NoValue
              THEN /\ AllCatch(InvalidTargetError)
                   /\ UNCHANGED instances
              ELSE /\ instances' = instances + 1
                   /\ pc' = "connect"
                   /\ UNCHANGED <<results, sent, idx>>
    /\ UNCHANGED <<printers, handler, alerts, isPrintingToAll, connected>>
    /\ UNCHANGED unchangedEpson

unchangedLoop == <<printers, handler, deviceName, alerts, isPrintingToAll, instances>>

\* await printer.connect(5000) and its catch; on success, await getPrintCopies()
AllConnect ==
    /\ pc = "connect" /\ handler = "all"
    /\ \E out \in Outcomes, stored \in StoredCopies :
        /\ printerLog' = Append(printerLog, Call("connect5000", out))
        /\ IF out = Ok
           THEN /\ connected' = connected \cup {CurrentTarget}
                /\ printCopies' = GetPrintCopies(stored)
                /\ copy' = 1
                /\ pc' = "viewShot"
                /\ UNCHANGED <<results, sent, idx>>
           ELSE IF IsConnectParameterError(out)
           THEN /\ pc' = "connectRetry"
                /\ UNCHANGED <<connected, printCopies, copy, results, sent, idx>>
           ELSE /\ AllCatch(out)
                /\ UNCHANGED <<connected, printCopies, copy>>
    /\ UNCHANGED unchangedLoop
    /\ UNCHANGED unchangedEpson

\* await printer.connect(), the retry; on success, await getPrintCopies()
AllConnectRetry ==
    /\ pc = "connectRetry" /\ handler = "all"
    /\ \E out \in Outcomes, stored \in StoredCopies :
        /\ printerLog' = Append(printerLog, Call("connect", out))
        /\ IF out = Ok
           THEN /\ connected' = connected \cup {CurrentTarget}
                /\ printCopies' = GetPrintCopies(stored)
                /\ copy' = 1
                /\ pc' = "viewShot"
                /\ UNCHANGED <<results, sent, idx>>
           ELSE /\ AllCatch(out)
                /\ UNCHANGED <<connected, printCopies, copy>>
    /\ UNCHANGED unchangedLoop
    /\ UNCHANGED unchangedEpson

\* await Printer.addViewShot(printer, ...): no try of its own here
AllViewShot ==
    /\ pc = "viewShot" /\ handler = "all"
    /\ \E out \in Outcomes :
        /\ printerLog' = Append(printerLog, Call("addViewShot", out))
        /\ IF out = Ok
           THEN /\ pc' = "cut"
                /\ UNCHANGED <<results, sent, idx>>
           ELSE AllCatch(out)
    /\ UNCHANGED <<connected, printCopies, copy>>
    /\ UNCHANGED unchangedLoop
    /\ UNCHANGED unchangedEpson

\* await printer.addCut() in its own try: a failure is logged and ignored
AllCut ==
    /\ pc = "cut" /\ handler = "all"
    /\ \E out \in Outcomes :
        printerLog' = Append(printerLog, Call("addCut", out))
    /\ pc' = "send"
    /\ UNCHANGED <<connected, printCopies, copy, results, sent, idx>>
    /\ UNCHANGED unchangedLoop
    /\ UNCHANGED unchangedEpson

\* await printer.sendData(), then the loop's decision
AllSend ==
    /\ pc = "send" /\ handler = "all"
    /\ \E out \in Outcomes :
        /\ printerLog' = Append(printerLog, Call("sendData", out))
        /\ IF out = Ok
           THEN /\ IF FeedBetweenCopies(copy, printCopies)
                   THEN pc' = "feed" /\ UNCHANGED copy
                   ELSE IF MoreCopies(copy, printCopies)
                   THEN pc' = "viewShot" /\ copy' = copy + 1
                   ELSE pc' = "disconnect" /\ UNCHANGED copy
                /\ UNCHANGED <<results, sent, idx>>
           ELSE AllCatch(out) /\ UNCHANGED copy
    /\ UNCHANGED <<connected, printCopies>>
    /\ UNCHANGED unchangedLoop
    /\ UNCHANGED unchangedEpson

\* await printer.addFeedLine(2) between copies, then copy++
AllFeed ==
    /\ pc = "feed" /\ handler = "all"
    /\ \E out \in Outcomes :
        /\ printerLog' = Append(printerLog, Call("addFeedLine", out))
        /\ IF out = Ok
           THEN /\ IF MoreCopies(copy, printCopies)
                   THEN pc' = "viewShot" /\ copy' = copy + 1
                   ELSE pc' = "disconnect" /\ UNCHANGED copy
                /\ UNCHANGED <<results, sent, idx>>
           ELSE AllCatch(out) /\ UNCHANGED copy
    /\ UNCHANGED <<connected, printCopies>>
    /\ UNCHANGED unchangedLoop
    /\ UNCHANGED unchangedEpson

\* await printer.disconnect(); results.push({ printer: deviceName, success: true })
AllDisconnect ==
    /\ pc = "disconnect" /\ handler = "all"
    /\ \E out \in Outcomes :
        /\ printerLog' = Append(printerLog, Call("disconnect", out))
        /\ IF out = Ok
           THEN /\ connected' = connected \ {CurrentTarget}
                /\ results' = Append(results, [printer |-> deviceName,
                                               success |-> TRUE,
                                               error |-> <<>>])
                /\ sent' = Append(sent, [copies |-> printCopies,
                                         sends |-> CountSent(printerLog'),
                                         thrown |-> Ok])
                /\ idx' = idx + 1
                /\ pc' = "nextPrinter"
           ELSE AllCatch(out) /\ UNCHANGED connected
    /\ UNCHANGED <<printCopies, copy>>
    /\ UNCHANGED unchangedLoop
    /\ UNCHANGED unchangedEpson

\* results.filter(r => ...): the entries of rs with the given success flag, in order
RECURSIVE FilterResults(_, _)
FilterResults(rs, ok) ==
    IF rs = <<>> THEN <<>>
    ELSE (IF Head(rs).success = ok THEN <<Head(rs)>> ELSE <<>>)
         \o FilterResults(Tail(rs), ok)

\* `• ${r.printer}`: the partial-success alert lists the failed printers by name only
PartialLine(r) == [printer |-> r.printer, error |-> <<>>]

\* `• ${r.printer}: ${r.error || 'Unknown error'}`
FailedLine(r) ==
    [printer |-> r.printer,
     error |-> IF r.error # <<>> THEN r.error ELSE <<"Unknown", "error">>]

\* lines 526-543: the alert that sums the results up
SummaryAlert(rs) ==
    LET successCount == Len(FilterResults(rs, TRUE))
        failed == FilterResults(rs, FALSE)
    IN  IF successCount = Len(rs)
        THEN Alert("Success", "", <<>>, <<>>)
        ELSE IF successCount > 0
        THEN Alert("Partial Success", "", <<>>,
                   [i \in DOMAIN failed |-> PartialLine(failed[i])])
        ELSE Alert("Print Failed", "", <<>>,
                   [i \in DOMAIN rs |-> FailedLine(rs[i])])

\* the loop is over: setIsPrintingToAll(false) and the summary alert
AllSummary ==
    /\ pc = "nextPrinter" /\ handler = "all"
    /\ idx > Len(printers)
    /\ isPrintingToAll' = FALSE
    /\ alerts' = Append(alerts, SummaryAlert(results))
    /\ pc' = "done"
    /\ UNCHANGED <<printers, handler, deviceName, idx, copy, printCopies, results,
                   connected, printerLog, instances, sent>>
    /\ UNCHANGED unchangedEpson

-----------------------------------------------------------------------------
(* Spec: one call of a print handler *)

\* Sequences of distinct printer infos, up to n long: what discovery can list
RECURSIVE DiscoveryLists(_)
DiscoveryLists(n) ==
    IF n = 0 THEN {<<>>}
    ELSE LET shorter == DiscoveryLists(n - 1)
         IN  shorter \cup
             { Append(l, p) : l \in {k \in shorter : Len(k) = n - 1},
                              p \in PrinterInfos }

\* mutant: discovery lists a device more than once
Repeated(l) == TRUE

\* discovery lists a device once: no two entries share a target
Distinct(l) == \A i, j \in DOMAIN l : i # j => l[i].target # l[j].target

ScreenIdle == [phase |-> "unused"]
OrderIdle == [phase |-> "unused"]
CalcIdle == [phase |-> "unused"]

InitPrint ==
    /\ printers \in {l \in DiscoveryLists(MaxPrinters) : Distinct(l)}
    /\ pc = "idle"
    /\ handler = "none"
    /\ isAutoPrint = FALSE
    /\ savedPrinterMac = NoValue
    /\ target = NoValue
    /\ deviceName = "Printer"
    /\ step = "initialization"
    /\ idx = 0
    /\ copy = 0
    /\ printCopies = 0
    /\ useManualTextPrint = FALSE
    /\ results = <<>>
    /\ alerts = <<>>
    /\ isEpsonPrinting = FALSE
    /\ isPrintingToAll = FALSE
    /\ isTestPrinting = FALSE
    /\ connected = {}
    /\ printerLog = <<>>
    /\ instances = 0
    /\ sent = <<>>

Init ==
    /\ InitPrint
    /\ screen = ScreenIdle
    /\ order = OrderIdle
    /\ calc = CalcIdle

unchangedByPrint == <<screen, order, calc>>

Next ==
    \/ (\E auto \in BOOLEAN : StartEpsonPrint(auto)) /\ UNCHANGED unchangedByPrint
    \/ StartPrintToAll /\ UNCHANGED unchangedByPrint
    \/ EpsonFindPrinter /\ UNCHANGED unchangedByPrint
    \/ EpsonLoadModule /\ UNCHANGED unchangedByPrint
    \/ EpsonGetViewTag /\ UNCHANGED unchangedByPrint
    \/ EpsonConnect /\ UNCHANGED unchangedByPrint
    \/ EpsonConnectRetry /\ UNCHANGED unchangedByPrint
    \/ EpsonViewShot /\ UNCHANGED unchangedByPrint
    \/ EpsonTextPrint /\ UNCHANGED unchangedByPrint
    \/ EpsonCut /\ UNCHANGED unchangedByPrint
    \/ EpsonSend /\ UNCHANGED unchangedByPrint
    \/ EpsonFeed /\ UNCHANGED unchangedByPrint
    \/ EpsonDisconnect /\ UNCHANGED unchangedByPrint
    \/ AllNextPrinter /\ UNCHANGED unchangedByPrint
    \/ AllConnect /\ UNCHANGED unchangedByPrint
    \/ AllConnectRetry /\ UNCHANGED unchangedByPrint
    \/ AllViewShot /\ UNCHANGED unchangedByPrint
    \/ AllCut /\ UNCHANGED unchangedByPrint
    \/ AllSend /\ UNCHANGED unchangedByPrint
    \/ AllFeed /\ UNCHANGED unchangedByPrint
    \/ AllDisconnect /\ UNCHANGED unchangedByPrint
    \/ AllSummary /\ UNCHANGED unchangedByPrint

Spec == Init /\ [][Next]_vars

-----------------------------------------------------------------------------
(* SpecStall: a call of a print handler in which an awaited SDK call may      *)
(* never settle. Every step that can be taken is eventually taken.            *)

\* the awaits of the print-to-all loop body that pass no time limit:
\* connect(), addViewShot, addCut, sendData(), addFeedLine, disconnect
UntimedAwaits == {"connectRetry", "viewShot", "cut", "send", "feed", "disconnect"}

\* the promise of the awaited call never settles: the loop is never resumed
AllStall ==
    /\ handler = "all" /\ pc \in UntimedAwaits
    /\ pc' = "stalled"
    /\ UNCHANGED <<printers, handler, isAutoPrint, savedPrinterMac, target, deviceName,
                   step, idx, copy, printCopies, useManualTextPrint, results, alerts,
                   isEpsonPrinting, isPrintingToAll, isTestPrinting, connected,
                   printerLog, instances, sent>>

NextStall ==
    \/ Next
    \/ AllStall /\ UNCHANGED unchangedByPrint

SpecStall == Init /\ [][NextStall]_vars /\ WF_vars(NextStall)

-----------------------------------------------------------------------------
(* Properties of the print handlers, checked under Spec *)

Last(q) == q[Len(q)]

InvalidParameterError == [message |-> <<"invalid", "parameter">>]

\* print-to-all went past its early returns and into the loop over the printers
LoopEntered == handler = "all" /\ idx > 0

\* the single-printer handler ended in its catch block
EpsonFailed ==
    /\ handler = "epson" /\ pc = "done"
    /\ alerts # <<>> /\ Last(alerts).title = "Print Failed"

\* the single-printer handler ran to its end without an alert
EpsonSucceeded ==
    /\ handler = "epson" /\ pc = "done" /\ alerts = <<>>

\* print-to-all has just finished a target: printerLog is that target's log
AllTargetDone ==
    /\ LoopEntered /\ pc \in {"nextPrinter", "done"}
    /\ Len(results) >= 1

AllFailed == AllTargetDone /\ ~Last(results).success
AllSucceeded == AllTargetDone /\ Last(results).success

DeviceFailed == EpsonFailed \/ AllFailed
DeviceSucceeded == EpsonSucceeded \/ AllSucceeded

\* C1: in print-to-all, a failing target never stops the loop: while the loop
\* runs there is one result per target already visited, at the end one result
\* per discovered target, each naming its own target, and every target reported
\* as succeeded had all the copies read for it sent.
C1_FailureIsolation ==
    LoopEntered =>
        /\ Len(results) = idx - 1
        /\ Len(sent) = Len(results)
        /\ (pc = "done" => Len(results) = Len(printers))
        /\ \A i \in DOMAIN results :
            /\ results[i].printer \in {DeviceNameOf(printers[i]), FailedNameOf(printers[i])}
            /\ results[i].success <=> sent[i].thrown = Ok
            /\ results[i].success =>
                  /\ sent[i].copies >= 1
                  /\ sent[i].sends = sent[i].copies

\* C1 witness: two targets, the first failed, the second printed two copies
C1_Witness ==
    /\ LoopEntered /\ pc = "done"
    /\ Len(results) = 2
    /\ ~results[1].success
    /\ results[2].success /\ sent[2].copies = 2 /\ sent[2].sends = 2

\* C2: whenever addViewShot fails with an invalid-parameter error, the next call
\* on that printer is the column-text render (the target does not fail on it),
\* in the single-printer handler and in print-to-all alike.
C2_CaptureFallbackEverywhere ==
    \A i \in DOMAIN printerLog :
        (printerLog[i].op = "addViewShot" /\ printerLog[i].out = InvalidParameterError)
        => IF i < Len(printerLog)
           THEN printerLog[i + 1].op = "printReceiptAsText"
           ELSE pc = "textPrint" /\ ~DeviceFailed

\* the ops of a log with every capture that fell back to text left out, so that
\* each round shows one render: addViewShot, or printReceiptAsText after a
\* failed addViewShot
RECURSIVE RoundOps(_)
RoundOps(log) ==
    IF log = <<>> THEN <<>>
    ELSE IF /\ Head(log).op = "addViewShot" /\ Head(log).out # Ok
            /\ Len(log) >= 2 /\ log[2].op = "printReceiptAsText"
         THEN RoundOps(Tail(log))
         ELSE <<IF Head(log).op \in {"addViewShot", "printReceiptAsText"}
                THEN "render" ELSE Head(log).op>> \o RoundOps(Tail(log))

\* c rounds of render, cut, send with a feed between two rounds
RECURSIVE ExpectedRounds(_)
ExpectedRounds(c) ==
    IF c = 0 THEN <<>>
    ELSE ExpectedRounds(c - 1)
         \o (IF c > 1 THEN <<"addFeedLine">> ELSE <<>>)
         \o <<"render", "addCut", "sendData">>

\* the calls after the connect calls
RECURSIVE AfterConnect(_)
AfterConnect(log) ==
    IF log # <<>> /\ Head(log).op \in {"connect5000", "connect"}
    THEN AfterConnect(Tail(log)) ELSE log

\* C4: a device that does not fail received, after its connect, exactly c rounds
\* of render, addCut, sendData (c the copy count: 1 for a manual single print),
\* with addFeedLine between two rounds and not after the last, then one
\* disconnect and nothing more.
C4_CopiesRounds ==
    DeviceSucceeded /\ printerLog # <<>> =>
        /\ printCopies >= 1
        /\ (handler = "epson" /\ ~isAutoPrint => printCopies = 1)
        /\ RoundOps(AfterConnect(printerLog))
             = ExpectedRounds(printCopies) \o <<"disconnect">>
        /\ CountSent(printerLog) = printCopies

\* C4 witness: two copies went out and the handler ended well
C4_Witness ==
    /\ DeviceSucceeded /\ printCopies = 2
    /\ CountSent(printerLog) = 2
    /\ \E i \in DOMAIN printerLog : printerLog[i].op = "addFeedLine"

\* C5: after print-to-all every failed target is in the summary alert, with the
\* text of the error that failed it.
C5_FailuresReportedWithText ==
    (LoopEntered /\ pc = "done") =>
        \A i \in DOMAIN results :
            ~results[i].success =>
                \E k \in DOMAIN Last(alerts).lines :
                    /\ Last(alerts).lines[k].printer = results[i].printer
                    /\ Last(alerts).lines[k].error = ErrorText(sent[i].thrown)

\* the connect calls of a log, in order
RECURSIVE ConnectCalls(_)
ConnectCalls(log) ==
    IF log = <<>> THEN <<>>
    ELSE (IF Head(log).op \in {"connect5000", "connect"} THEN <<Head(log)>> ELSE <<>>)
         \o ConnectCalls(Tail(log))

\* C6: the first call on a printer is connect with the timeout; a connect
\* without it is made if and only if that first one failed with an
\* invalid-parameter error, once, right after it; a first failure of another
\* class or a failed retry fails the device, and no connect follows.
C6_ConnectRetry ==
    LET cs == ConnectCalls(printerLog) IN
    /\ printerLog # <<>> => printerLog[1].op = "connect5000"
    /\ Len(cs) <= 2
    /\ \A i \in DOMAIN cs : printerLog[i] = cs[i]
    /\ Len(cs) = 2 => cs[2].op = "connect" /\ cs[1].out = InvalidParameterError
    /\ (Len(cs) = 1 /\ cs[1].out = InvalidParameterError) => pc = "connectRetry"
    /\ (Len(cs) >= 1 /\ cs[1].out \notin {Ok, InvalidParameterError}) =>
            Len(printerLog) = 1 /\ DeviceFailed
    /\ (Len(cs) = 2 /\ cs[2].out # Ok) => Len(printerLog) = 2 /\ DeviceFailed

\* C6 witness: the retry without timeout was made and connected
C6_Witness ==
    /\ Len(printerLog) >= 2
    /\ printerLog[1] = Call("connect5000", InvalidParameterError)
    /\ printerLog[2] = Call("connect", Ok)
    /\ CurrentTarget \in connected

\* The per-device state of the spec's state machine, read off the handler
DeviceState ==
    IF DeviceFailed THEN "Failed"
    ELSE IF DeviceSucceeded THEN "Disconnected"
    ELSE IF pc \in {"connect", "connectRetry"} THEN "Connecting"
    ELSE IF pc \in {"viewShot", "textPrint"} THEN "Rendering"
    ELSE IF pc = "cut" THEN "Cutting"
    ELSE IF pc \in {"send", "feed", "disconnect"} THEN "Sending"
    ELSE "Idle"

\* the call that may follow call c on one printer
MayFollow(c, op) ==
    IF c.op = "connect5000"
        THEN (c.out = Ok /\ op = "addViewShot") \/ (c.out # Ok /\ op = "connect")
    ELSE IF c.op = "connect" THEN c.out = Ok /\ op = "addViewShot"
    ELSE IF c.op = "addViewShot"
        THEN (c.out = Ok /\ op = "addCut") \/ (c.out # Ok /\ op = "printReceiptAsText")
    ELSE IF c.op = "printReceiptAsText" THEN c.out = Ok /\ op = "addCut"
    ELSE IF c.op = "addCut" THEN op = "sendData"
    ELSE IF c.op = "sendData" THEN c.out = Ok /\ op \in {"addFeedLine", "disconnect"}
    ELSE IF c.op = "addFeedLine" THEN c.out = Ok /\ op = "addViewShot"
    ELSE FALSE

\* connect, render, cut, send, disconnect come in that order on every printer
CallOrder ==
    /\ \A i \in 1..(Len(printerLog) - 1) : MayFollow(printerLog[i], printerLog[i + 1].op)
    /\ printerLog # <<>> => printerLog[1].op = "connect5000"
    /\ \A i \in DOMAIN printerLog :
        /\ printerLog[i].op = "sendData" =>
              \E j \in 1..(i - 1) :
                  printerLog[j].op \in {"connect5000", "connect"} /\ printerLog[j].out = Ok
        /\ printerLog[i].op = "disconnect" =>
              /\ i = Len(printerLog)
              /\ i > 1 /\ printerLog[i - 1] = Call("sendData", Ok)
              /\ CountSent(printerLog) = printCopies
    /\ (handler # "none" /\ CurrentTarget \in connected) =>
            \E j \in DOMAIN printerLog :
                printerLog[j].op \in {"connect5000", "connect"} /\ printerLog[j].out = Ok
    /\ DeviceState = "Disconnected" /\ printerLog # <<>> => Last(printerLog) = Call("disconnect", Ok)
    /\ DeviceState \in {"Rendering", "Cutting", "Sending"} => CurrentTarget \in connected

\* the error of call i is one the handler recovers from by its retry or fallback rule
Recovered(i) ==
    \/ i = 1 /\ printerLog[i] = Call("connect5000", InvalidParameterError)
    \/ handler = "epson" /\ printerLog[i] = Call("addViewShot", InvalidParameterError)

\* the reason the failed device is reported with
FailureReason == IF handler = "epson" THEN Last(alerts).text ELSE Last(results).error

\* call i threw, the device is Failed by it and reported with its text
FailsDevice(i) ==
    /\ i = Len(printerLog)
    /\ DeviceState = "Failed"
    /\ FailureReason # <<>>
    /\ printerLog[i].out.message # <<>> => FailureReason = printerLog[i].out.message

NoTargets ==
    /\ Len(printers) = 0
    /\ \/ handler = "all"
       \/ handler = "epson" /\ pc # "findPrinter" /\ savedPrinterMac = NoValue

\* C8: with nothing discovered (and, for the single-printer handler, no saved
\* default printer) the handler creates no Printer, makes no SDK call and ends
\* with the No Printers Found alert alone.
C8_NoPrinterFound ==
    NoTargets =>
        /\ instances = 0
        /\ printerLog = <<>>
        /\ connected = {}
        /\ ~isEpsonPrinting /\ ~isPrintingToAll
        /\ pc = "done"
        /\ alerts = <<NoPrintersAlert>>

\* C8 witness: the single-printer handler ended on the empty target list
C8_Witness == NoTargets /\ handler = "epson" /\ pc = "done"

\* a connect call (with or without the timeout) is made in this step
ConnectStep ==
    /\ Len(printerLog') = Len(printerLog) + 1
    /\ Last(printerLog').op \in {"connect5000", "connect"}

C12_StallDoesNotBlockOthers ==
    LoopEntered ~> (Len(results) >= Len(printers) - 1)

-----------------------------------------------------------------------------
(* The receipt's arithmetic. A JavaScript number is an IEEE 754 double: the   *)
(* value (-1)^neg * m * 2^e with m below 2^53. Mantissas are natural numbers  *)
(* of any size, written as sequences of 15-bit limbs, lowest limb first;      *)
(* every operation computes the exact result and rounds it to nearest, ties   *)
(* to even, as the double operation does.                                     *)

Min(a, b) == IF a < b THEN a ELSE b

\* the width of a limb, and the number of values it takes
LimbBits == 15
Base == 2^LimbBits

\* the limbs of a natural number, lowest first
RECURSIVE Limbs(_)
Limbs(n) == IF n = 0 THEN <<>> ELSE <<n % Base>> \o Limbs(n \div Base)

\* the natural number of a short limb sequence
RECURSIVE LimbsValue(_)
LimbsValue(b) == IF b = <<>> THEN 0 ELSE Head(b) + Base * LimbsValue(Tail(b))

\* without leading zero limbs
RECURSIVE Norm(_)
Norm(b) ==
    IF b = <<>> THEN <<>>
    ELSE IF b[Len(b)] = 0 THEN Norm(SubSeq(b, 1, Len(b) - 1))
    ELSE b

RECURSIVE BAdd(_, _, _)
BAdd(a, b, carry) ==
    IF a = <<>> /\ b = <<>> THEN (IF carry = 0 THEN <<>> ELSE <<carry>>)
    ELSE LET x == IF a = <<>> THEN 0 ELSE Head(a)
             y == IF b = <<>> THEN 0 ELSE Head(b)
             sum == x + y + carry
         IN  <<sum % Base>> \o BAdd(IF a = <<>> THEN a ELSE Tail(a),
                                    IF b = <<>> THEN b ELSE Tail(b), sum \div Base)

\* a - b - borrow for a >= b, leading zeros kept
RECURSIVE BSubRaw(_, _, _)
BSubRaw(a, b, borrow) ==
    IF a = <<>> THEN <<>>
    ELSE LET y == IF b = <<>> THEN 0 ELSE Head(b)
             d == Head(a) - y - borrow
         IN  <<d % Base>> \o BSubRaw(Tail(a), IF b = <<>> THEN b ELSE Tail(b),
                                     IF d < 0 THEN 1 ELSE 0)

BSub(a, b) == Norm(BSubRaw(a, b, 0))

\* a < b, for a and b without leading zeros, compared from limb i down
RECURSIVE BLessFrom(_, _, _)
BLessFrom(a, b, i) ==
    IF i = 0 THEN FALSE
    ELSE IF a[i] # b[i] THEN a[i] < b[i]
    ELSE BLessFrom(a, b, i - 1)

BLess(a, b) ==
    IF Len(a) # Len(b) THEN Len(a) < Len(b) ELSE BLessFrom(a, b, Len(a))

\* a * k + carry for k up to Base
RECURSIVE BMulSmall(_, _, _)
BMulSmall(a, k, carry) ==
    IF a = <<>> THEN Limbs(carry)
    ELSE LET p == Head(a) * k + carry
         IN  <<p % Base>> \o BMulSmall(Tail(a), k, p \div Base)

\* quotient and remainder of the limbs i..1 of a by d up to Base, r carried in
RECURSIVE BDivSmall(_, _, _, _)
BDivSmall(a, d, i, r) ==
    IF i = 0 THEN [q |-> <<>>, r |-> r]
    ELSE LET r2 == r * Base + a[i]
             rest == BDivSmall(a, d, i - 1, r2 % d)
         IN  [q |-> Append(rest.q, r2 \div d), r |-> rest.r]

\* a * 2^k
Shl(a, k) ==
    IF a = <<>> THEN <<>>
    ELSE [i \in 1..(k \div LimbBits) |-> 0] \o Norm(BMulSmall(a, 2^(k % LimbBits), 0))

\* a div 2^k
Shr(a, k) ==
    LET high == SubSeq(a, (k \div LimbBits) + 1, Len(a))
    IN  Norm(BDivSmall(high, 2^(k % LimbBits), Len(high), 0).q)

\* the number of bits of a limb
RECURSIVE SmallBitLength(_)
SmallBitLength(n) == IF n = 0 THEN 0 ELSE 1 + SmallBitLength(n \div 2)

\* the number of bits of a, without leading zeros
BitLength(a) ==
    IF a = <<>> THEN 0 ELSE LimbBits * (Len(a) - 1) + SmallBitLength(a[Len(a)])

\* the mantissa width of a double
MantissaBits == 53

Zero == [neg |-> FALSE, m |-> <<>>, e |-> 0]

\* The double nearest to m * 2^e (plus a nonzero rest below the last bit when
\* sticky), ties to even
RoundToDouble(neg, m, e, sticky) ==
    IF m = <<>> THEN Zero
    ELSE IF BitLength(m) <= MantissaBits THEN [neg |-> neg, m |-> m, e |-> e]
    ELSE LET drop == BitLength(m) - MantissaBits
             q == Shr(m, drop)
             rest == BSub(m, Shl(q, drop))
             half == Shl(<<1>>, drop - 1)
             up == \/ BLess(half, rest)
                   \/ rest = half /\ (sticky \/ q[1] % 2 = 1)
             r == IF up THEN BAdd(q, <<1>>, 0) ELSE q
         IN  IF BitLength(r) > MantissaBits
             THEN [neg |-> neg, m |-> Shr(r, 1), e |-> e + drop + 1]
             ELSE [neg |-> neg, m |-> r, e |-> e + drop]

\* the guard bits kept below the mantissa when a decimal literal is converted
GuardShift == 70

\* The double a decimal literal n / d denotes (JSON.parse, or a literal of the
\* source such as 0.05), for naturals n and d
FromDecimal(n, d) ==
    IF n = 0 THEN Zero
    ELSE LET scaled == Shl(Limbs(n), GuardShift)
             qr == BDivSmall(scaled, d, Len(scaled), 0)
         IN  RoundToDouble(FALSE, Norm(qr.q), -GuardShift, qr.r # 0)

DNeg(x) == IF x.m = <<>> THEN x ELSE [x EXCEPT !.neg = ~x.neg]

\* x + y
DAdd(x, y) ==
    IF x.m = <<>> THEN y
    ELSE IF y.m = <<>> THEN x
    ELSE LET emin == Min(x.e, y.e)
             mx == Shl(x.m, x.e - emin)
             my == Shl(y.m, y.e - emin)
         IN  IF x.neg = y.neg
             THEN RoundToDouble(x.neg, BAdd(mx, my, 0), emin, FALSE)
             ELSE IF mx = my THEN Zero
             ELSE IF BLess(my, mx)
             THEN RoundToDouble(x.neg, BSub(mx, my), emin, FALSE)
             ELSE RoundToDouble(y.neg, BSub(my, mx), emin, FALSE)

\* x - y
DSub(x, y) == DAdd(x, DNeg(y))

\* Math.abs(x)
DAbs(x) == [x EXCEPT !.neg = FALSE]

\* x > y for x >= 0 and y > 0
DGreater(x, y) ==
    IF x.m = <<>> THEN FALSE
    ELSE LET emin == Min(x.e, y.e)
         IN  BLess(Shl(y.m, y.e - emin), Shl(x.m, x.e - emin))

\* x >= 0
DNonNegative(x) == ~x.neg

\* a * b
RECURSIVE BMul(_, _)
BMul(a, b) ==
    IF a = <<>> \/ b = <<>> THEN <<>>
    ELSE BAdd(BMulSmall(a, Head(b), 0),
              IF Len(b) = 1 THEN <<>> ELSE <<0>> \o BMul(a, Tail(b)), 0)

\* x * y
DMul(x, y) ==
    IF x.m = <<>> \/ y.m = <<>> THEN Zero
    ELSE RoundToDouble(x.neg # y.neg, Norm(BMul(x.m, y.m)), x.e + y.e, FALSE)

\* the integer a natural number n is, as a double
FromNat(n) == RoundToDouble(FALSE, Limbs(n), 0, FALSE)

\* n / d for naturals n and d: the division of two doubles that are integers
DivNat(n, d) == FromDecimal(n, d)

\* Math.round(x): the nearest integer, the larger one of two, for x >= 0
MathRound(x) ==
    IF x.m = <<>> THEN 0
    ELSE IF x.e >= 0 THEN LimbsValue(Shl(x.m, x.e))
    ELSE LET k == -x.e
             q == Shr(x.m, k)
             rest == BSub(x.m, Shl(q, k))
             half == Shl(<<1>>, k - 1)
         IN  LimbsValue(IF BLess(rest, half) THEN q ELSE BAdd(q, <<1>>, 0))

\* the decimal digits
Digits == <<"0", "1", "2", "3", "4", "5", "6", "7", "8", "9">>

\* the decimal numeral of a natural number, as a sequence of characters
RECURSIVE Numeral(_)
Numeral(n) ==
    IF n < 10 THEN <<Digits[n + 1]>>
    ELSE Numeral(n \div 10) \o <<Digits[(n % 10) + 1]>>

\* Number.prototype.toFixed(2), step 1: the integer n for which n / 100 - |x| is
\* as close to zero as possible, the larger n if there are two
NearestHundredth(x) ==
    IF x.m = <<>> THEN 0
    ELSE LET p == BMulSmall(x.m, 100, 0)
         IN  IF x.e >= 0 THEN LimbsValue(Shl(p, x.e))
             ELSE LET k == -x.e
                      q == Shr(p, k)
                      rest == BSub(p, Shl(q, k))
                      half == Shl(<<1>>, k - 1)
                  IN  LimbsValue(IF BLess(rest, half) THEN q ELSE BAdd(q, <<1>>, 0))

\* x.toFixed(2): "-" for x < 0, the integer digits, ".", two fraction digits
ToFixed2(x) ==
    LET n == NearestHundredth(x)
    IN  (IF x.neg THEN <<"-">> ELSE <<>>)
        \o Numeral(n \div 100)
        \o <<".", Digits[((n % 100) \div 10) + 1], Digits[(n % 10) + 1]>>

-----------------------------------------------------------------------------
(* The receipt screen: renders, the auto-save and auto-print effects, their   *)
(* async continuations and timers.                                            *)

\* const totalMismatchThreshold = 0.05, in hundredths
TotalMismatchThreshold == 5

\* the number a price or total of so many cents is, once the JSON is parsed
Money(cents) == FromDecimal(cents, 100)

\* What the screen was opened with: structured data (parseReceiptData gave
\* receiptData) with the prices of its items and its total, in cents, or text
\* lines
ScreenReceipts ==
    { [kind |-> "json", items |-> <<500, 300>>, total |-> 1000, lines |-> 0],
      [kind |-> "json", items |-> <<1000>>,     total |-> 1000, lines |-> 0],
      [kind |-> "json", items |-> <<700, 500>>, total |-> 1000, lines |-> 0],
      [kind |-> "text", items |-> <<>>,         total |-> 0,    lines |-> 2],
      [kind |-> "text", items |-> <<>>,         total |-> 0,    lines |-> 0] }

\* receiptData.items.reduce((sum, item) => sum + price, 0), sum carried in
RECURSIVE SumPrices(_, _)
SumPrices(items, sum) ==
    IF items = <<>> THEN sum
    ELSE SumPrices(Tail(items), DAdd(sum, Money(Head(items))))

\* itemsTotal: 0 without receiptData
ItemsTotal(r) == IF r.kind = "json" THEN SumPrices(r.items, Zero) ELSE Zero

\* mismatchDifference = receiptData ? itemsTotal - receiptData.total : 0
MismatchDifference(r) ==
    IF r.kind = "json" THEN DSub(ItemsTotal(r), Money(r.total)) ELSE Zero

\* mutant: the difference is compared without Math.abs
MismatchWithoutAbs(r) ==
    IF r.kind = "json"
    THEN /\ DNonNegative(MismatchDifference(r))
         /\ DGreater(MismatchDifference(r), Money(TotalMismatchThreshold))
    ELSE FALSE

\* hasTotalMismatch = receiptData ? Math.abs(mismatchDifference) > threshold : false
HasTotalMismatch(r) ==
    IF r.kind = "json"
    THEN DGreater(DAbs(MismatchDifference(r)), Money(TotalMismatchThreshold))
    ELSE FALSE

\* mismatchDifferenceDisplay = `${d >= 0 ? '+' : ''}${d.toFixed(2)}`
MismatchDifferenceDisplay(r) ==
    LET d == MismatchDifference(r)
    IN  (IF DNonNegative(d) THEN <<"+">> ELSE <<>>) \o ToFixed2(d)

\* receiptData || (filteredReceiptLines && filteredReceiptLines.length > 0)
DataReady(r) == r.kind = "json" \/ r.lines > 0

\* what the receipt body shows: isJson && receiptData ? the items : the lines
ReceiptBody(r) == IF r.kind = "json" THEN "items" ELSE "lines"

RemoveAt(q, i) == [j \in 1..(Len(q) - 1) |-> IF j < i THEN q[j] ELSE q[j + 1]]

\* What a render's closures see: the state values of that render
Snapshot(sc) ==
    [isSaved |-> sc.isSaved, isSaving |-> sc.isSaving,
     isPrinting |-> sc.isPrinting,
     isEpsonPrinting |-> sc.isEpsonPrinting,
     hasTotalMismatch |-> HasTotalMismatch(sc.receipt),
     body |-> ReceiptBody(sc.receipt)]

\* the printer type setting the screen loaded: 'system' | 'pos'
PrinterTypes == {"system", "pos"}

Task(kind, at, snap, auto) == [kind |-> kind, at |-> at, snap |-> snap, auto |-> auto]

InitScreen ==
    \E r \in ScreenReceipts, existing \in BOOLEAN, type \in PrinterTypes :
        screen = [phase |-> "live",
                  receipt |-> r,
                  isExistingReceipt |-> existing,
                  printerType |-> type,
                  isSaved |-> existing,
                  isSaving |-> FALSE,
                  isPrinting |-> FALSE,
                  isEpsonPrinting |-> FALSE,
                  view |-> [isSaved |-> existing, isSaving |-> FALSE,
                            isPrinting |-> FALSE,
                            isEpsonPrinting |-> FALSE,
                            hasTotalMismatch |-> HasTotalMismatch(r),
                            body |-> ReceiptBody(r)],
                  autoPrintAttemptedRef |-> FALSE,
                  renders |-> 0,
                  taps |-> 0,
                  tasks |-> <<>>,
                  saveCalls |-> 0,
                  autoPrintCalls |-> 0,
                  manualPrintCalls |-> 0,
                  systemPrintCalls |-> 0]

\* the auto-save effect of a render with closure v: the tasks it starts
AutoSaveEffect(sc, v) ==
    IF ~sc.isExistingReceipt /\ DataReady(sc.receipt)
    THEN <<Task("autoSave", "getAutoSave", v, FALSE)>>
    ELSE <<>>

\* the condition under which the auto-print effect calls autoPrintIfEnabled
AutoPrintEffectRuns(sc, v) ==
    ~v.hasTotalMismatch /\ v.isSaved /\ DataReady(sc.receipt)

\* the auto-print effect of a render with closure v: the tasks it starts
AutoPrintEffect(sc, v) ==
    IF ~sc.isExistingReceipt /\ AutoPrintEffectRuns(sc, v) /\ ~sc.autoPrintAttemptedRef
    THEN <<Task("autoPrint", "getAutoPrinter", v, TRUE)>>
    ELSE <<>>

\* A render commits, and its effects run: every render builds a new receiptData
\* or filteredReceiptLines, so both effects see changed dependencies each time
Render ==
    /\ screen.phase = "live"
    /\ screen.renders < MaxRenders
    /\ LET v == Snapshot(screen) IN
       screen' = [screen EXCEPT
                    !.view = v,
                    !.renders = @ + 1,
                    !.autoPrintAttemptedRef =
                        IF screen.isExistingReceipt THEN TRUE ELSE @,
                    !.tasks = @ \o AutoSaveEffect(screen, v) \o AutoPrintEffect(screen, v)]

\* handleSave's guard, on the values of the closure that calls it
SaveGuard(sc, v) == ~(v.isSaving \/ v.isSaved \/ sc.isExistingReceipt)

\* autoSaveIfEnabled after await getAutoSave(): the check, then handleSave(true)
\* up to its await saveReceipt(...)
AutoSaveResume(i) ==
    /\ screen.tasks[i].kind = "autoSave"
    /\ \E autoSave \in BOOLEAN :
        LET v == screen.tasks[i].snap IN
        IF /\ autoSave /\ ~v.isSaved /\ ~v.isSaving /\ DataReady(screen.receipt)
           /\ SaveGuard(screen, v)
        THEN screen' = [screen EXCEPT
                          !.isSaving = TRUE,
                          !.saveCalls = @ + 1,
                          !.tasks = [@ EXCEPT ![i] = Task("save", "saveReceipt", v, TRUE)]]
        ELSE screen' = [screen EXCEPT !.tasks = RemoveAt(@, i)]

\* a tap on the save button of the last render: handleSave(false) up to its await
ManualSave ==
    /\ screen.phase = "live" /\ screen.renders >= 1
    /\ screen.taps < MaxTaps
    /\ ~(screen.view.isSaving \/ screen.view.isSaved \/ screen.isExistingReceipt)
    /\ SaveGuard(screen, screen.view)
    /\ screen' = [screen EXCEPT
                    !.taps = @ + 1,
                    !.isSaving = TRUE,
                    !.saveCalls = @ + 1,
                    !.tasks = Append(@, Task("save", "saveReceipt", screen.view, FALSE))]

\* handleSave after await saveReceipt(...): setIsSaved(true) unless it threw; finally
SaveResume(i) ==
    /\ screen.tasks[i].kind = "save"
    /\ \E saved \in BOOLEAN :
        screen' = [screen EXCEPT
                     !.isSaved = IF saved THEN TRUE ELSE @,
                     !.isSaving = FALSE,
                     !.tasks = RemoveAt(@, i)]

\* the checks of autoPrintIfEnabled after await getAutoPrinter()
AutoPrintAllowed(sc, v, autoPrint) ==
    /\ ~v.hasTotalMismatch
    /\ autoPrint /\ v.isSaved /\ ~v.isEpsonPrinting /\ DataReady(sc.receipt)

\* autoPrintIfEnabled after await getAutoPrinter(): set the ref, start the timer
AutoPrintResume(i) ==
    /\ screen.tasks[i].kind = "autoPrint" /\ screen.tasks[i].at = "getAutoPrinter"
    /\ \E autoPrint \in BOOLEAN :
        IF AutoPrintAllowed(screen, screen.tasks[i].snap, autoPrint)
        THEN screen' = [screen EXCEPT
                          !.autoPrintAttemptedRef = TRUE,
                          !.tasks = [@ EXCEPT ![i].at = "timer"]]
        ELSE screen' = [screen EXCEPT !.tasks = RemoveAt(@, i)]

\* the 500 ms timer fires: handleEpsonPrint(true)
AutoPrintTimer(i) ==
    /\ screen.tasks[i].kind = "autoPrint" /\ screen.tasks[i].at = "timer"
    /\ screen' = [screen EXCEPT
                    !.autoPrintCalls = @ + 1,
                    !.tasks = [@ EXCEPT ![i] = Task("epson", "started", screen.tasks[i].snap, TRUE)]]

\* mutant: the POS print button is also disabled while the totals mismatch
PosPrintDisabledOnMismatch(v) == v.isEpsonPrinting \/ v.hasTotalMismatch

\* the POS print button's disabled={isEpsonPrinting}
PosPrintDisabled(v) == v.isEpsonPrinting

\* the system print button's disabled={isPrinting}
SystemPrintDisabled(v) == v.isPrinting

\* a tap on the system print button of the last render: handlePrint up to its
\* await Print.printAsync, with the HTML generated from the receipt
SystemPrint ==
    /\ screen.phase = "live" /\ screen.renders >= 1
    /\ screen.taps < MaxTaps
    /\ screen.printerType = "system"
    /\ ~SystemPrintDisabled(screen.view)
    /\ screen' = [screen EXCEPT
                    !.taps = @ + 1,
                    !.isPrinting = TRUE,
                    !.systemPrintCalls = @ + 1,
                    !.tasks = Append(@, Task("print", "printAsync", screen.view, FALSE))]

\* handlePrint after await Print.printAsync, printed, cancelled or failed: finally
SystemPrintEnd(i) ==
    /\ screen.tasks[i].kind = "print"
    /\ screen' = [screen EXCEPT
                    !.isPrinting = FALSE,
                    !.tasks = RemoveAt(@, i)]

\* a tap on the POS print button of the last render: handleEpsonPrint(false)
ManualPrint ==
    /\ screen.phase = "live" /\ screen.renders >= 1
    /\ screen.taps < MaxTaps
    /\ screen.printerType = "pos"
    /\ ~PosPrintDisabled(screen.view)
    /\ screen' = [screen EXCEPT
                    !.taps = @ + 1,
                    !.manualPrintCalls = @ + 1,
                    !.tasks = Append(@, Task("epson", "started", screen.view, FALSE))]

\* handleEpsonPrint up to setIsEpsonPrinting(true), or one of its early returns
EpsonBegin(i) ==
    /\ screen.tasks[i].kind = "epson" /\ screen.tasks[i].at = "started"
    /\ \E early \in BOOLEAN :
        IF early
        THEN screen' = [screen EXCEPT !.tasks = RemoveAt(@, i)]
        ELSE screen' = [screen EXCEPT
                          !.isEpsonPrinting = TRUE,
                          !.tasks = [@ EXCEPT ![i].at = "printing"]]

\* handleEpsonPrint ends, in its try or in its catch: setIsEpsonPrinting(false)
EpsonEnd(i) ==
    /\ screen.tasks[i].kind = "epson" /\ screen.tasks[i].at = "printing"
    /\ screen' = [screen EXCEPT
                    !.isEpsonPrinting = FALSE,
                    !.tasks = RemoveAt(@, i)]

InitScreenSpec ==
    /\ InitScreen
    /\ order = OrderIdle
    /\ calc = CalcIdle
    /\ printers = <<>>
    /\ pc = "unused"
    /\ handler = "none"
    /\ isAutoPrint = FALSE
    /\ savedPrinterMac = NoValue
    /\ target = NoValue
    /\ deviceName = "Printer"
    /\ step = "initialization"
    /\ idx = 0
    /\ copy = 0
    /\ printCopies = 0
    /\ useManualTextPrint = FALSE
    /\ results = <<>>
    /\ alerts = <<>>
    /\ isEpsonPrinting = FALSE
    /\ isPrintingToAll = FALSE
    /\ isTestPrinting = FALSE
    /\ connected = {}
    /\ printerLog = <<>>
    /\ instances = 0
    /\ sent = <<>>

unchangedByScreen == <<printVars, order, calc>>

NextScreen ==
    \/ Render /\ UNCHANGED unchangedByScreen
    \/ ManualSave /\ UNCHANGED unchangedByScreen
    \/ ManualPrint /\ UNCHANGED unchangedByScreen
    \/ SystemPrint /\ UNCHANGED unchangedByScreen
    \/ (\E i \in DOMAIN screen.tasks : SystemPrintEnd(i)) /\ UNCHANGED unchangedByScreen
    \/ (\E i \in DOMAIN screen.tasks : AutoSaveResume(i)) /\ UNCHANGED unchangedByScreen
    \/ (\E i \in DOMAIN screen.tasks : SaveResume(i)) /\ UNCHANGED unchangedByScreen
    \/ (\E i \in DOMAIN screen.tasks : AutoPrintResume(i)) /\ UNCHANGED unchangedByScreen
    \/ (\E i \in DOMAIN screen.tasks : AutoPrintTimer(i)) /\ UNCHANGED unchangedByScreen
    \/ (\E i \in DOMAIN screen.tasks : EpsonBegin(i)) /\ UNCHANGED unchangedByScreen
    \/ (\E i \in DOMAIN screen.tasks : EpsonEnd(i)) /\ UNCHANGED unchangedByScreen

SpecScreen == InitScreenSpec /\ [][NextScreen]_vars

\* the sum of prices given in cents
RECURSIVE SumCents(_)
SumCents(prices) == IF prices = <<>> THEN 0 ELSE Head(prices) + SumCents(Tail(prices))

\* the receipt is structured and its items do not add up to its total
ReceiptMismatch ==
    /\ screen.receipt.kind = "json"
    /\ \/ SumCents(screen.receipt.items) - screen.receipt.total > 5
       \/ screen.receipt.total - SumCents(screen.receipt.items) > 5

\* C3: while the receipt's items and total mismatch, auto-print is neither
\* queued (no auto-print check pending on the setting, no timer running) nor
\* attempted (handleEpsonPrint(true) is never called), however renders, the
\* save and the settings reads interleave.
C3_NoAutoPrintOnMismatch ==
    ReceiptMismatch =>
        /\ screen.autoPrintCalls = 0
        /\ \A i \in DOMAIN screen.tasks :
            /\ screen.tasks[i].kind # "autoPrint"
            /\ ~(screen.tasks[i].kind = "epson" /\ screen.tasks[i].auto)

\* C3 witness: a mismatching new receipt was saved and rendered again as saved
C3_Witness ==
    /\ ReceiptMismatch
    /\ ~screen.isExistingReceipt
    /\ screen.saveCalls = 1
    /\ screen.view.isSaved
    /\ screen.renders >= 2

\* a print button of the last render can be tapped (within the taps explored)
CanTap == screen.phase = "live" /\ screen.renders >= 1 /\ screen.taps < MaxTaps

\* C13: a total mismatch blocks only auto-print: the mismatching receipt is
\* still built and rendered (its items, under the warning), and a manual print
\* is still accepted: the POS print button and the system print button stay
\* enabled unless their own print is running, and their handlers start.
C13_MismatchAdvisory ==
    (ReceiptMismatch /\ screen.renders >= 1) =>
        /\ screen.view.body = "items"
        /\ screen.view.hasTotalMismatch
        /\ (CanTap /\ screen.printerType = "pos" /\ ~screen.view.isEpsonPrinting)
              => ENABLED ManualPrint
        /\ (CanTap /\ screen.printerType = "system" /\ ~screen.view.isPrinting)
              => ENABLED SystemPrint

\* C13 witness: on a mismatching receipt the POS print button was tapped and
\* handleEpsonPrint(false) went past its early returns and is printing
C13_Witness ==
    /\ ReceiptMismatch
    /\ screen.manualPrintCalls = 1
    /\ \E i \in DOMAIN screen.tasks :
        /\ screen.tasks[i].kind = "epson" /\ ~screen.tasks[i].auto
        /\ screen.tasks[i].at = "printing"

-----------------------------------------------------------------------------
(* The daily order counter: utils/orderNumber.ts against one Redis key        *)
(* (prefix_date_counter of the current day). Each Redis command is one atomic *)
(* step at the server; a device's function is a sequence of such steps.       *)

STARTING_ORDER_NUMBER == 100

\* the value of a key that does not exist (GET returns null)
NoKey == -1

Devices == 1..MaxDevices

\* isRedisConfigured() is false: both functions return STARTING_ORDER_NUMBER
InitOrder ==
    \E configured \in BOOLEAN :
        order = [phase |-> "live",
                 configured |-> configured,
                 store |-> NoKey,
                 at |-> [d \in Devices |-> "idle"],
                 calls |-> 0,
                 failures |-> 0,
                 currentCalls |-> 0,
                 nextReturned |-> <<>>,
                 currentReturned |-> <<>>]

\* a device calls getNextOrderNumber(): the configuration check
CallNext(d) ==
    /\ order.phase = "live"
    /\ order.at[d] = "idle"
    /\ order.calls < MaxOrderCalls
    /\ IF order.configured
       THEN order' = [order EXCEPT !.calls = @ + 1, !.at[d] = "nextGet"]
       ELSE order' = [order EXCEPT !.calls = @ + 1,
                                   !.nextReturned = Append(@, STARTING_ORDER_NUMBER)]

\* const currentValue = await redisCommand('GET', [key])
NextGet(d) ==
    /\ order.at[d] = "nextGet"
    /\ order' = [order EXCEPT
                   !.at[d] = IF order.store = NoKey THEN "nextSet" ELSE "nextIncr"]

\* await redisCommand('SET', [key, STARTING_ORDER_NUMBER - 1])
NextSet(d) ==
    /\ order.at[d] = "nextSet"
    /\ order' = [order EXCEPT !.store = STARTING_ORDER_NUMBER - 1, !.at[d] = "nextIncr"]

\* Redis INCR: a missing key counts as 0
Incr(v) == IF v = NoKey THEN 1 ELSE v + 1

\* const newValue = await redisCommand('INCR', [key]); return parseInt(newValue, 10)
NextIncr(d) ==
    /\ order.at[d] = "nextIncr"
    /\ order' = [order EXCEPT
                   !.store = Incr(order.store),
                   !.nextReturned = Append(@, Incr(order.store)),
                   !.at[d] = "idle"]

\* a device calls getCurrentOrderNumber() (the capture screen does on mount)
CallCurrent(d) ==
    /\ order.phase = "live"
    /\ order.at[d] = "idle"
    /\ order.calls < MaxOrderCalls
    /\ IF order.configured
       THEN order' = [order EXCEPT !.calls = @ + 1, !.currentCalls = @ + 1,
                                   !.at[d] = "currentGet"]
       ELSE order' = [order EXCEPT !.calls = @ + 1, !.currentCalls = @ + 1,
                                   !.currentReturned = Append(@, STARTING_ORDER_NUMBER)]

\* const value = await redisCommand('GET', [key]); return parseInt(value, 10) if it is there
CurrentGet(d) ==
    /\ order.at[d] = "currentGet"
    /\ IF order.store = NoKey
       THEN order' = [order EXCEPT !.at[d] = "currentSet"]
       ELSE order' = [order EXCEPT !.currentReturned = Append(@, order.store),
                                   !.at[d] = "idle"]

\* await redisCommand('SET', [key, STARTING_ORDER_NUMBER]); return STARTING_ORDER_NUMBER
CurrentSet(d) ==
    /\ order.at[d] = "currentSet"
    /\ order' = [order EXCEPT !.store = STARTING_ORDER_NUMBER,
                              !.currentReturned = Append(@, STARTING_ORDER_NUMBER),
                              !.at[d] = "idle"]

\* the pending redisCommand of a device throws (fetch fails, or the response is
\* not ok): the catch of the function returns STARTING_ORDER_NUMBER
RedisFails(d) ==
    /\ order.at[d] # "idle"
    /\ IF order.at[d] \in {"nextGet", "nextSet", "nextIncr"}
       THEN order' = [order EXCEPT !.failures = @ + 1,
                                   !.nextReturned = Append(@, STARTING_ORDER_NUMBER),
                                   !.at[d] = "idle"]
       ELSE order' = [order EXCEPT !.failures = @ + 1,
                                   !.currentReturned = Append(@, STARTING_ORDER_NUMBER),
                                   !.at[d] = "idle"]

InitOrderSpec ==
    /\ InitOrder
    /\ screen = ScreenIdle
    /\ calc = CalcIdle
    /\ printers = <<>>
    /\ pc = "unused"
    /\ handler = "none"
    /\ isAutoPrint = FALSE
    /\ savedPrinterMac = NoValue
    /\ target = NoValue
    /\ deviceName = "Printer"
    /\ step = "initialization"
    /\ idx = 0
    /\ copy = 0
    /\ printCopies = 0
    /\ useManualTextPrint = FALSE
    /\ results = <<>>
    /\ alerts = <<>>
    /\ isEpsonPrinting = FALSE
    /\ isPrintingToAll = FALSE
    /\ isTestPrinting = FALSE
    /\ connected = {}
    /\ printerLog = <<>>
    /\ instances = 0
    /\ sent = <<>>

unchangedByOrder == <<printVars, screen, calc>>

NextOrder ==
    \/ (\E d \in Devices : CallNext(d)) /\ UNCHANGED unchangedByOrder
    \/ (\E d \in Devices : NextGet(d)) /\ UNCHANGED unchangedByOrder
    \/ (\E d \in Devices : NextSet(d)) /\ UNCHANGED unchangedByOrder
    \/ (\E d \in Devices : NextIncr(d)) /\ UNCHANGED unchangedByOrder
    \/ (\E d \in Devices : CallCurrent(d)) /\ UNCHANGED unchangedByOrder
    \/ (\E d \in Devices : CurrentGet(d)) /\ UNCHANGED unchangedByOrder
    \/ (\E d \in Devices : CurrentSet(d)) /\ UNCHANGED unchangedByOrder
    \/ (\E d \in Devices : RedisFails(d)) /\ UNCHANGED unchangedByOrder

SpecOrder == InitOrderSpec /\ [][NextOrder]_vars

\* the counter store is configured and no command has failed
StoreReachable == order.configured /\ order.failures = 0

\* C9: with the store reachable, no two getNextOrderNumber calls of a day return
\* the same number, however the calls of the devices interleave.
C9_UniqueOrderNumbers ==
    StoreReachable =>
        \A i, j \in DOMAIN order.nextReturned :
            i # j => order.nextReturned[i] # order.nextReturned[j]

\* C10: with the store reachable, the first getNextOrderNumber of a day returns
\* 100, whether or not getCurrentOrderNumber was called before it.
C10_FirstOrderIs100 ==
    (StoreReachable /\ order.nextReturned # <<>>) =>
        order.nextReturned[1] = STARTING_ORDER_NUMBER


-----------------------------------------------------------------------------
(* SpecMismatch: the receipt screen is opened with a structured receipt and   *)
(* derives the mismatch flag and the difference it displays.                  *)

\* the longest list of items explored
MaxItems == 2

\* the item prices and the totals explored, in cents
PriceChoices == {0, 5, 10, 300, 500, 805}
TotalChoices == {0, 5, 800, 810, 1000}

\* the lists of up to n prices
RECURSIVE PriceLists(_)
PriceLists(n) ==
    IF n = 0 THEN {<<>>}
    ELSE LET shorter == PriceLists(n - 1)
         IN  shorter \cup
             { Append(l, p) : l \in {k \in shorter : Len(k) = n - 1},
                              p \in PriceChoices }

\* parseReceiptData gave receiptData: the prices of the items, and the total
StructuredReceipts ==
    { [kind |-> "json", items |-> l, total |-> t, lines |-> 0] :
        l \in PriceLists(MaxItems), t \in TotalChoices }

InitMismatch ==
    \E r \in StructuredReceipts :
        calc = [phase |-> "opened", receipt |-> r,
                hasTotalMismatch |-> FALSE, display |-> <<>>]

\* a render of the screen: the flag and the displayed difference are derived
DeriveMismatch ==
    /\ calc.phase = "opened"
    /\ calc' = [calc EXCEPT
                  !.phase = "rendered",
                  !.hasTotalMismatch = HasTotalMismatch(calc.receipt),
                  !.display = MismatchDifferenceDisplay(calc.receipt)]

\* the screen is left and opened with another receipt
OpenReceipt ==
    /\ calc.phase = "rendered"
    /\ \E r \in StructuredReceipts :
        calc' = [phase |-> "opened", receipt |-> r,
                 hasTotalMismatch |-> FALSE, display |-> <<>>]

InitMismatchSpec ==
    /\ InitMismatch
    /\ screen = ScreenIdle
    /\ order = OrderIdle
    /\ printers = <<>>
    /\ pc = "unused"
    /\ handler = "none"
    /\ isAutoPrint = FALSE
    /\ savedPrinterMac = NoValue
    /\ target = NoValue
    /\ deviceName = "Printer"
    /\ step = "initialization"
    /\ idx = 0
    /\ copy = 0
    /\ printCopies = 0
    /\ useManualTextPrint = FALSE
    /\ results = <<>>
    /\ alerts = <<>>
    /\ isEpsonPrinting = FALSE
    /\ isPrintingToAll = FALSE
    /\ isTestPrinting = FALSE
    /\ connected = {}
    /\ printerLog = <<>>
    /\ instances = 0
    /\ sent = <<>>

unchangedByCalc == <<printVars, screen, order>>

NextMismatch ==
    \/ DeriveMismatch /\ UNCHANGED unchangedByCalc
    \/ OpenReceipt /\ UNCHANGED unchangedByCalc

SpecMismatch == InitMismatchSpec /\ [][NextMismatch]_vars

\* the exact difference, in cents, of the item prices' sum and the total
ExactDifference(r) == SumCents(r.items) - r.total

\* a difference in cents with an explicit sign and two decimals, as characters
SignedAmount(d) ==
    LET a == IF d < 0 THEN -d ELSE d
    IN  <<IF d < 0 THEN "-" ELSE "+">>
        \o Numeral(a \div 100)
        \o <<".", Digits[((a % 100) \div 10) + 1], Digits[(a % 10) + 1]>>

\* the derived flag is set exactly when the exact difference exceeds 0.05
FlagExact ==
    calc.phase = "rendered" =>
        (calc.hasTotalMismatch <=>
            (ExactDifference(calc.receipt) > 5 \/ ExactDifference(calc.receipt) < -5))

\* the displayed difference of a receipt whose totals differ is the signed
\* exact difference
DeltaExact ==
    (calc.phase = "rendered" /\ ExactDifference(calc.receipt) # 0) =>
        calc.display = SignedAmount(ExactDifference(calc.receipt))

\* C14: for every structured receipt the mismatch flag is set exactly when the
\* absolute difference of the item prices' sum and the total exceeds 0.05, and
\* the delta string is that difference, signed, with two decimals ("-2.00" for
\* items of 5 and 3 against a total of 10).
C14_MismatchFlagAndDelta == FlagExact /\ DeltaExact

-----------------------------------------------------------------------------
(* SpecTotals: calculateTotals (utils/printer) applied to a receipt's total   *)

\* the largest total explored in thousandths of a dollar, one by one
MaxTotalMills == 400

\* the larger totals explored, in thousandths
LargeTotals == {1000, 2200, 10005, 22000, 99990, 123450, 1234567}

TotalInputs == (0..MaxTotalMills) \cup LargeTotals

\* const subtotal = total * (100 / 110)
SubtotalOf(total) == DMul(total, DivNat(100, 110))

\* mutant: GST taken as 10% of the total
GstOnTop(total) == DMul(total, DivNat(10, 100))

\* const gst = total * (10 / 110)
GstOf(total) == DMul(total, DivNat(10, 110))

\* Math.round(x * 100) / 100
RoundToCents(x) == DivNat(MathRound(DMul(x, FromNat(100))), 100)

\* calculateTotals(total)
CalculateTotals(total) ==
    [subtotal |-> RoundToCents(SubtotalOf(total)),
     gst |-> RoundToCents(GstOf(total)),
     total |-> total]

InitTotals ==
    \E t \in TotalInputs :
        calc = [phase |-> "receipt", mills |-> t, totals |-> <<>>]

\* const totals = calculateTotals(receiptData.total)
ApplyCalculateTotals ==
    /\ calc.phase = "receipt"
    /\ calc' = [calc EXCEPT
                  !.phase = "totals",
                  !.totals = CalculateTotals(FromDecimal(calc.mills, 1000))]

\* the next receipt
NextReceiptTotal ==
    /\ calc.phase = "totals"
    /\ \E t \in TotalInputs :
        calc' = [phase |-> "receipt", mills |-> t, totals |-> <<>>]

InitTotalsSpec ==
    /\ InitTotals
    /\ screen = ScreenIdle
    /\ order = OrderIdle
    /\ printers = <<>>
    /\ pc = "unused"
    /\ handler = "none"
    /\ isAutoPrint = FALSE
    /\ savedPrinterMac = NoValue
    /\ target = NoValue
    /\ deviceName = "Printer"
    /\ step = "initialization"
    /\ idx = 0
    /\ copy = 0
    /\ printCopies = 0
    /\ useManualTextPrint = FALSE
    /\ results = <<>>
    /\ alerts = <<>>
    /\ isEpsonPrinting = FALSE
    /\ isPrintingToAll = FALSE
    /\ isTestPrinting = FALSE
    /\ connected = {}
    /\ printerLog = <<>>
    /\ instances = 0
    /\ sent = <<>>

NextTotals ==
    \/ ApplyCalculateTotals /\ UNCHANGED unchangedByCalc
    \/ NextReceiptTotal /\ UNCHANGED unchangedByCalc

SpecTotals == InitTotalsSpec /\ [][NextTotals]_vars

\* |x + y - z| <= 1/100, on the exact values of non-negative doubles
WithinOneCent(x, y, z) ==
    LET emin == Min(Min(x.e, y.e), Min(z.e, 0))
        sum == BAdd(Shl(x.m, x.e - emin), Shl(y.m, y.e - emin), 0)
        other == Shl(z.m, z.e - emin)
        diff == IF BLess(sum, other) THEN BSub(other, sum) ELSE BSub(sum, other)
    IN  ~BLess(Shl(<<1>>, -emin), Norm(BMulSmall(diff, 100, 0)))

\* C15: for every total, the subtotal and the gst that calculateTotals returns,
\* each rounded to 2 decimals on its own, add up to within 1 cent of the total.
C15_SubtotalPlusGst ==
    calc.phase = "totals" =>
        WithinOneCent(calc.totals.subtotal, calc.totals.gst, calc.totals.total)

\* C15 witness: a total for which the two roundings leave a drift: 0.055 gives
\* subtotal 0.05 and gst 0.01
C15_Witness ==
    /\ calc.phase = "totals"
    /\ calc.mills = 55
    /\ ToFixed2(calc.totals.subtotal) = <<"0", ".", "0", "5">>
    /\ ToFixed2(calc.totals.gst) = <<"0", ".", "0", "1">>

-----------------------------------------------------------------------------
(* SpecShape: the structured receipt the AI returned is validated by          *)
(* extractReceiptFromImageWithGenerativeAI (utils/ocr), and the receipt       *)
(* screen's parseReceiptData decides whether its text is structured data.     *)
(* A JSON value is its type and a number v: twice the value of a number, the  *)
(* length of a string or an array, 0 otherwise.                               *)

JNumber(twice) == [t |-> "number", v |-> twice]
JString(length) == [t |-> "string", v |-> length]
JArray(length) == [t |-> "array", v |-> length]
JObject == [t |-> "object", v |-> 0]
JNull == [t |-> "null", v |-> 0]
JUndefined == [t |-> "undefined", v |-> 0]

\* typeof x
TypeOf(x) == IF x.t \in {"array", "null"} THEN "object" ELSE x.t

\* x in a boolean context
Truthy(x) ==
    CASE x.t \in {"number", "string"} -> x.v # 0
      [] x.t \in {"array", "object"} -> TRUE
      [] OTHER -> FALSE

\* Array.isArray(x)
IsArray(x) == x.t = "array"

\* x < n for a number x and an integer n
NumberBelow(x, n) == x.v < 2 * n

\* the values of the fields of an item that are explored
NameChoices == {JString(6), JString(0), JNumber(4), JUndefined}
QuantityChoices == {JNumber(2), JNumber(4), JNumber(0), JNumber(3), JString(1), JUndefined}
PriceChoices16 == {JNumber(11), JNumber(0), JNumber(-2), JString(4), JUndefined}
ModifierChoices == {JUndefined, JArray(1), JString(9), JNumber(0), JNull}

\* an item object with these fields, or a null in the place of an item
ItemChoices ==
    [isObject : {TRUE}, name : NameChoices, quantity : QuantityChoices,
     price : PriceChoices16, modifiers : ModifierChoices]
    \cup {[isObject |-> FALSE, name |-> JUndefined, quantity |-> JUndefined,
           price |-> JUndefined, modifiers |-> JUndefined]}

GoodItem ==
    [isObject |-> TRUE, name |-> JString(6), quantity |-> JNumber(2),
     price |-> JNumber(11), modifiers |-> JUndefined]

\* what the text parses to: not JSON at all, null, or an object with these
\* items (a list, or something else), total and customer
Payloads ==
    {[root |-> r, itemsIsArray |-> FALSE, items |-> <<>>, total |-> JUndefined,
      customer |-> JUndefined] : r \in {"invalid", "null"}}
    \cup
    {[root |-> "object", itemsIsArray |-> a, items |-> l, total |-> t, customer |-> c] :
        a \in BOOLEAN,
        l \in {<<>>} \cup {<<i>> : i \in ItemChoices} \cup {<<GoodItem, i>> : i \in ItemChoices},
        t \in {JNumber(22), JString(5), JUndefined},
        c \in {JUndefined, JNull, JObject}}

NoError == "none"

\* the forEach callback of the item validation: the error it throws
ItemError(item) ==
    IF ~item.isObject THEN "TypeError"
    ELSE IF ~Truthy(item.name) \/ TypeOf(item.name) # "string"
    THEN "name is missing or not a string"
    ELSE IF TypeOf(item.quantity) # "number" \/ NumberBelow(item.quantity, 1)
    THEN "quantity is missing or invalid"
    ELSE IF TypeOf(item.price) # "number" \/ NumberBelow(item.price, 0)
    THEN "price is missing or invalid"
    ELSE IF Truthy(item.modifiers) /\ ~IsArray(item.modifiers)
    THEN "modifiers is not an array"
    ELSE NoError

\* receiptData.items.forEach(...): the first error thrown
RECURSIVE ItemsError(_)
ItemsError(items) ==
    IF items = <<>> THEN NoError
    ELSE IF ItemError(Head(items)) # NoError THEN ItemError(Head(items))
    ELSE ItemsError(Tail(items))

\* JSON.parse and the validation of the structure: the error thrown
ShapeError(p) ==
    IF p.root = "invalid" THEN "SyntaxError"
    ELSE IF p.root = "null" THEN "root is not an object"
    ELSE IF ~p.itemsIsArray THEN "items is not an array"
    ELSE IF TypeOf(p.total) # "number" THEN "total is not a number"
    ELSE IF p.customer # JUndefined /\ p.customer # JObject
    THEN "customer must be an object when provided"
    ELSE ItemsError(p.items)

InitShape ==
    \E p \in Payloads :
        calc = [phase |-> "text", payload |-> p, accepted |-> FALSE, error |-> NoError]

\* extractReceiptFromImageWithGenerativeAI from the response text on: the parsed
\* data is returned, or an Error('Failed to parse JSON response: ...') is thrown
ExtractReceipt ==
    /\ calc.phase = "text"
    /\ calc' = [calc EXCEPT
                  !.phase = "extracted",
                  !.accepted = ShapeError(calc.payload) = NoError,
                  !.error = ShapeError(calc.payload)]

\* parseReceiptData of the receipt screen: receiptData, or null and isJson false
ParseReceiptData ==
    /\ calc.phase = "text"
    /\ calc' = [calc EXCEPT
                  !.phase = "parsed",
                  !.accepted = /\ calc.payload.root = "object"
                               /\ calc.payload.itemsIsArray
                               /\ TypeOf(calc.payload.total) = "number",
                  !.error = NoError]

InitShapeSpec ==
    /\ InitShape
    /\ screen = ScreenIdle
    /\ order = OrderIdle
    /\ printers = <<>>
    /\ pc = "unused"
    /\ handler = "none"
    /\ isAutoPrint = FALSE
    /\ savedPrinterMac = NoValue
    /\ target = NoValue
    /\ deviceName = "Printer"
    /\ step = "initialization"
    /\ idx = 0
    /\ copy = 0
    /\ printCopies = 0
    /\ useManualTextPrint = FALSE
    /\ results = <<>>
    /\ alerts = <<>>
    /\ isEpsonPrinting = FALSE
    /\ isPrintingToAll = FALSE
    /\ isTestPrinting = FALSE
    /\ connected = {}
    /\ printerLog = <<>>
    /\ instances = 0
    /\ sent = <<>>

NextShape ==
    \/ ExtractReceipt /\ UNCHANGED unchangedByCalc
    \/ ParseReceiptData /\ UNCHANGED unchangedByCalc

SpecShape == InitShapeSpec /\ [][NextShape]_vars

\* an item of the shape {name: string, quantity: integer >= 1, price: number
\* >= 0, modifiers?: list}
WellShapedItem(item) ==
    /\ item.isObject
    /\ item.name.t = "string"
    /\ item.quantity.t = "number" /\ item.quantity.v % 2 = 0 /\ item.quantity.v >= 2
    /\ item.price.t = "number" /\ item.price.v >= 0
    /\ item.modifiers.t \in {"undefined", "array"}

WellShaped(p) ==
    /\ p.root = "object"
    /\ p.itemsIsArray
    /\ \A i \in DOMAIN p.items : WellShapedItem(p.items[i])
    /\ p.total.t = "number"

\* the validation of the AI response accepts well-shaped input only
ExtractAcceptsWellShapedOnly ==
    (calc.phase = "extracted" /\ calc.accepted) => WellShaped(calc.payload)

\* the screen's parse accepts well-shaped input only
ParseAcceptsWellShapedOnly ==
    (calc.phase = "parsed" /\ calc.accepted) => WellShaped(calc.payload)

\* what is not accepted is rejected with an error
RejectedWithError ==
    (calc.phase \in {"extracted", "parsed"} /\ ~calc.accepted) => calc.error # NoError

\* C16: structured input is accepted only if items is a list of items with a
\* string name, an integer quantity >= 1, a numeric price >= 0 and, when
\* present, a modifiers list, and total is a number; any other shape is rejected
\* with an error and no receipt data.
C16_InvalidShapeRejected ==
    /\ ExtractAcceptsWellShapedOnly
    /\ ParseAcceptsWellShapedOnly
    /\ RejectedWithError

-----------------------------------------------------------------------------
(* SpecText: the receipt screen in text mode. formatReceiptText classifies    *)
(* the lines of the extracted text, and filteredReceiptLines drops all but    *)
(* the last Total line. A line is its sequence of characters.                 *)

\* the longest text explored, in lines
MaxLines == 3

LineBurger == <<"2", "x", " ", "B", "U", "R", "G", "E", "R">>
LineNoOnions == <<" ", " ", "n", "o", " ", "o", "n", "i", "o", "n", "s">>
LineTotal22 == <<"T", "o", "t", "a", "l", ":", " ", "$", "2", "2", ".", "0", "0">>
LineTotalUpper == <<"T", "O", "T", "A", "L", ":", " ", "$", "2", "0", ".", "0", "0">>
LineSubtotal == <<"S", "u", "b", "t", "o", "t", "a", "l", ":", " ", "$", "2", "0", ".", "0", "0">>
LineBlank == <<" ", " ">>
LineFries == <<"F", "R", "I", "E", "S", " ", "$", "5", ".", "0", "0">>
LineTotalNoColon == <<"T", "o", "t", "a", "l", " ", "$", "9", ".", "0", "0">>
LineTotalIndented == <<"\t", "t", "o", "t", "a", "l", ":", " ", "$", "1", ".", "0", "0">>

LineChoices ==
    {LineBurger, LineNoOnions, LineTotal22, LineTotalUpper, LineSubtotal, LineBlank,
     LineFries, LineTotalNoColon, LineTotalIndented}

\* the texts of up to n lines: text.split('\n')
RECURSIVE Texts(_)
Texts(n) ==
    IF n = 0 THEN {<<>>}
    ELSE LET shorter == Texts(n - 1)
         IN  shorter \cup
             { Append(t, l) : t \in {k \in shorter : Len(k) = n - 1},
                              l \in LineChoices }

Whitespace == {" ", "\t"}
Digit == {"0", "1", "2", "3", "4", "5", "6", "7", "8", "9"}
UpperCase == <<"A", "B", "C", "D", "E", "F", "G", "H", "I", "J", "K", "L", "M",
               "N", "O", "P", "Q", "R", "S", "T", "U", "V", "W", "X", "Y", "Z">>
LowerCase == <<"a", "b", "c", "d", "e", "f", "g", "h", "i", "j", "k", "l", "m",
               "n", "o", "p", "q", "r", "s", "t", "u", "v", "w", "x", "y", "z">>

\* the /i flag: a character without its case
ToLower(c) ==
    IF \E k \in DOMAIN UpperCase : UpperCase[k] = c
    THEN LowerCase[CHOOSE k \in DOMAIN UpperCase : UpperCase[k] = c]
    ELSE c

LowerText(q) == [k \in DOMAIN q |-> ToLower(q[k])]

RECURSIVE TrimStart(_)
TrimStart(q) ==
    IF q # <<>> /\ Head(q) \in Whitespace THEN TrimStart(Tail(q)) ELSE q

RECURSIVE TrimEnd(_)
TrimEnd(q) ==
    IF q # <<>> /\ q[Len(q)] \in Whitespace THEN TrimEnd(SubSeq(q, 1, Len(q) - 1)) ELSE q

\* line.trim()
TrimLine(q) == TrimEnd(TrimStart(q))

\* q.startsWith(p)
StartsWith(q, p) == Len(q) >= Len(p) /\ SubSeq(q, 1, Len(p)) = p

\* the first index from k on at which q has no character of set
RECURSIVE RunEnd(_, _, _)
RunEnd(q, k, set) ==
    IF k <= Len(q) /\ q[k] \in set THEN RunEnd(q, k + 1, set) ELSE k

\* /\$\d+\.?\d*/.test(q)
HasPrice(q) == \E k \in 1..(Len(q) - 1) : q[k] = "$" /\ q[k + 1] \in Digit

\* /^(Total|TOTAL|Subtotal|GST|Tax):/i.test(q)
IsTotalLine(q) ==
    \E word \in {<<"t", "o", "t", "a", "l", ":">>,
                 <<"s", "u", "b", "t", "o", "t", "a", "l", ":">>,
                 <<"g", "s", "t", ":">>, <<"t", "a", "x", ":">>} :
        StartsWith(LowerText(q), word)

\* /^(Total|TOTAL):/i.test(q)
IsGrandTotal(q) == StartsWith(LowerText(q), <<"t", "o", "t", "a", "l", ":">>)

\* q.match(/^(\d+)x\s+/i): the end of the match, 0 without one
QuantityMatchEnd(q) ==
    LET x == RunEnd(q, 1, Digit)
    IN  IF x > 1 /\ x < Len(q) /\ ToLower(q[x]) = "x" /\ q[x + 1] \in Whitespace
        THEN RunEnd(q, x + 1, Whitespace) - 1
        ELSE 0

\* quantityMatch ? quantityMatch[1] : null, the empty sequence for null
Quantity(q) ==
    IF QuantityMatchEnd(q) = 0 THEN <<>> ELSE SubSeq(q, 1, RunEnd(q, 1, Digit) - 1)

\* q.match(/\$[\d,]+\.?\d*/): priceMatch[0], the empty sequence for null
Price(q) ==
    LET starts == {k \in 1..(Len(q) - 1) : q[k] = "$" /\ q[k + 1] \in Digit \cup {","}}
    IN  IF starts = {} THEN <<>>
        ELSE LET from == CHOOSE k \in starts : \A other \in starts : k <= other
                 amount == RunEnd(q, from + 1, Digit \cup {","})
                 to == IF amount <= Len(q) /\ q[amount] = "."
                       THEN RunEnd(q, amount + 1, Digit)
                       ELSE amount
             IN  SubSeq(q, from, to - 1)

\* q.replace(p, ''): without the first occurrence of p
ReplaceFirst(q, p) ==
    LET at == {k \in 1..(Len(q) - Len(p) + 1) : SubSeq(q, k, k + Len(p) - 1) = p}
    IN  IF at = {} THEN q
        ELSE LET k == CHOOSE k \in at : \A other \in at : k <= other
             IN  SubSeq(q, 1, k - 1) \o SubSeq(q, k + Len(p), Len(q))

\* the text without the price and without the quantity
TextWithoutPrice(q) ==
    LET noPrice == IF Price(q) # <<>> THEN TrimLine(ReplaceFirst(q, Price(q))) ELSE q
    IN  IF Quantity(q) # <<>>
        THEN TrimLine(SubSeq(noPrice, QuantityMatchEnd(noPrice) + 1, Len(noPrice)))
        ELSE noPrice

\* the callback of lines.map in formatReceiptText, for a line that is not blank
ClassifyLine(line, index) ==
    LET trimmed == TrimLine(line)
    IN  [text |-> trimmed,
         textWithoutPrice |-> TextWithoutPrice(trimmed),
         price |-> Price(trimmed),
         quantity |-> Quantity(trimmed),
         isIndented |-> /\ line # trimmed
                        /\ \/ StartsWith(line, <<" ", " ">>)
                           \/ StartsWith(line, <<"\t">>),
         isTotalLine |-> IsTotalLine(trimmed),
         hasPrice |-> HasPrice(trimmed),
         key |-> index]

\* formatReceiptText: lines.map(...).filter(Boolean), from line index on
RECURSIVE FormatReceiptText(_, _)
FormatReceiptText(lines, index) ==
    IF index > Len(lines) THEN <<>>
    ELSE (IF TrimLine(lines[index]) = <<>> THEN <<>>
          ELSE <<ClassifyLine(lines[index], index - 1)>>)
         \o FormatReceiptText(lines, index + 1)

\* line.isTotalLine && /^(Total|TOTAL):/i.test(line.text)
IsTotal(line) == line.isTotalLine /\ IsGrandTotal(line.text)

\* the indices of the Total lines of receiptLines
TotalIndices(receiptLines) == {k \in DOMAIN receiptLines : IsTotal(receiptLines[k])}

\* mutant: the first Total line is the one kept
FirstTotalIndex(receiptLines) ==
    CHOOSE k \in TotalIndices(receiptLines) :
        \A other \in TotalIndices(receiptLines) : k <= other

\* lastTotalIndex: the idx of the last of the Total lines (.pop())
LastTotalIndex(receiptLines) ==
    CHOOSE k \in TotalIndices(receiptLines) :
        \A other \in TotalIndices(receiptLines) : k >= other

\* receiptLines.filter(pred), for the lines from index k on
RECURSIVE KeepTotalAt(_, _, _)
KeepTotalAt(receiptLines, keep, k) ==
    IF k > Len(receiptLines) THEN <<>>
    ELSE (IF IsTotal(receiptLines[k]) /\ k # keep THEN <<>> ELSE <<receiptLines[k]>>)
         \o KeepTotalAt(receiptLines, keep, k + 1)

\* filteredReceiptLines
FilteredReceiptLines(receiptLines) ==
    IF Cardinality(TotalIndices(receiptLines)) > 1
    THEN KeepTotalAt(receiptLines, LastTotalIndex(receiptLines), 1)
    ELSE receiptLines

InitText ==
    \E t \in Texts(MaxLines) :
        calc = [phase |-> "text", lines |-> t, receiptLines |-> <<>>,
                filteredReceiptLines |-> <<>>]

\* a render in text mode: receiptLines and filteredReceiptLines
RenderText ==
    /\ calc.phase = "text"
    /\ LET receiptLines == FormatReceiptText(calc.lines, 1)
       IN  calc' = [calc EXCEPT
                      !.phase = "lines",
                      !.receiptLines = receiptLines,
                      !.filteredReceiptLines = FilteredReceiptLines(receiptLines)]

InitTextSpec ==
    /\ InitText
    /\ screen = ScreenIdle
    /\ order = OrderIdle
    /\ printers = <<>>
    /\ pc = "unused"
    /\ handler = "none"
    /\ isAutoPrint = FALSE
    /\ savedPrinterMac = NoValue
    /\ target = NoValue
    /\ deviceName = "Printer"
    /\ step = "initialization"
    /\ idx = 0
    /\ copy = 0
    /\ printCopies = 0
    /\ useManualTextPrint = FALSE
    /\ results = <<>>
    /\ alerts = <<>>
    /\ isEpsonPrinting = FALSE
    /\ isPrintingToAll = FALSE
    /\ isTestPrinting = FALSE
    /\ connected = {}
    /\ printerLog = <<>>
    /\ instances = 0
    /\ sent = <<>>

NextText == RenderText /\ UNCHANGED unchangedByCalc

SpecText == InitTextSpec /\ [][NextText]_vars

\* a raw line is a Total line: it reads "Total:", in any case, after its
\* leading blanks
RawTotal(line) == IsGrandTotal(TrimLine(line))

RawBlank(line) == TrimLine(line) = <<>>

\* the raw lines that are Total lines
RawTotals(lines) == {k \in DOMAIN lines : RawTotal(lines[k])}

\* the trimmed raw lines from k on, without the blank ones and without the
\* Total lines other than the one at keep
RECURSIVE ExpectedTexts(_, _, _)
ExpectedTexts(lines, keep, k) ==
    IF k > Len(lines) THEN <<>>
    ELSE (IF RawBlank(lines[k]) \/ (RawTotal(lines[k]) /\ k # keep) THEN <<>>
          ELSE <<TrimLine(lines[k])>>)
         \o ExpectedTexts(lines, keep, k + 1)

TextsOf(receiptLines) == [k \in DOMAIN receiptLines |-> receiptLines[k].text]

\* C17: of a text with more than one Total line the classification keeps one
\* Total line, the one at the highest line index, and every other non-blank
\* line, in the order of the text.
C17_LastTotalKept ==
    (calc.phase = "lines" /\ Cardinality(RawTotals(calc.lines)) > 1) =>
        LET last == CHOOSE k \in RawTotals(calc.lines) :
                        \A other \in RawTotals(calc.lines) : k >= other
        IN  /\ TextsOf(calc.filteredReceiptLines) = ExpectedTexts(calc.lines, last, 1)
            /\ Cardinality(TotalIndices(calc.filteredReceiptLines)) = 1

\* C17 witness: a text with two different Total lines and an item between them
C17_Witness ==
    /\ calc.phase = "lines"
    /\ calc.lines = <<LineTotalUpper, LineFries, LineTotal22>>
    /\ TextsOf(calc.filteredReceiptLines) = <<LineFries, LineTotal22>>

-----------------------------------------------------------------------------
(* SpecPrint: the receipt printed as text (utils/printer printReceiptAsText)  *)
(* with the template the settings hold (utils/settings getPrintTemplate).     *)
(* What the printer is given is recorded by section: header, items, totals    *)
(* and footer.                                                                *)

\* the most items of a structured receipt that is printed
MaxPrintItems == 1

\* the longest text that is printed, in lines
MaxPrintLines == 3

NameBurger == <<"B", "U", "R", "G", "E", "R">>
NameChickenWrap == <<"C", "H", "I", "C", "K", "E", "N", " ", "W", "R", "A", "P">>
NameLong == <<"L", "A", "R", "G", "E", " ", "F", "A", "M", "I", "L", "Y", " ", "S", "E", "A", "F", "O", "O", "D", " ", "P", "L", "A", "T", "T", "E", "R", " ", "W", "I", "T", "H", " ", "C", "H", "I", "P", "S">>
ModifierNoOnions == <<"n", "o", " ", "o", "n", "i", "o", "n", "s">>
LineWrap == <<"3", "x", " ", "C", "H", "I", "C", "K", "E", "N", " ", "W", "R", "A", "P", " ", "$", "1", "2", ".", "5", "0">>
LineLong == <<"L", "A", "R", "G", "E", " ", "F", "A", "M", "I", "L", "Y", " ", "S", "E", "A", "F", "O", "O", "D", " ", "P", "L", "A", "T", "T", "E", "R", " ", "W", "I", "T", "H", " ", "C", "H", "I", "P", "S", " ", "$", "1", ",", "2", "3", "4", ".", "5", "0">>

\* receiptData.items: an item, its price in cents
PrintItemChoices ==
    [name : {NameBurger, NameChickenWrap, NameLong},
     quantity : {1, 2},
     price : {550, 1250},
     modifiers : {<<>>, <<ModifierNoOnions>>}]

RECURSIVE PrintItemLists(_)
PrintItemLists(n) ==
    IF n = 0 THEN {<<>>}
    ELSE LET shorter == PrintItemLists(n - 1)
         IN  shorter \cup
             { Append(l, item) : l \in {k \in shorter : Len(k) = n - 1},
                                 item \in PrintItemChoices }

PrintLineChoices ==
    {LineBurger, LineNoOnions, LineTotal22, LineSubtotal, LineWrap, LineLong}

RECURSIVE PrintTexts(_)
PrintTexts(n) ==
    IF n = 0 THEN {<<>>}
    ELSE LET shorter == PrintTexts(n - 1)
         IN  shorter \cup
             { Append(t, l) : t \in {k \in shorter : Len(k) = n - 1},
                              l \in PrintLineChoices }

\* what is printed: receiptData (total in cents) or the text of the receipt
PrintSources ==
    { [kind |-> "json", items |-> l, total |-> 2200, lines |-> <<>>] :
          l \in PrintItemLists(MaxPrintItems) }
    \cup
    { [kind |-> "text", items |-> <<>>, total |-> 0, lines |-> t] :
          t \in PrintTexts(MaxPrintLines) }

\* AsyncStorage.getItem(PRINT_TEMPLATE_KEY): a stored string, null, or a
\* rejection
StoredTemplates == {"classic", "compact", "kitchen", "fancy", "null", "rejected"}

\* getPrintTemplate
GetPrintTemplate(value) ==
    IF value \in {"compact", "kitchen", "classic"} THEN value ELSE "classic"

\* mutant: a template that is not known is printed as the kitchen template
KitchenByDefault(template) ==
    IF template = "compact"
    THEN [lineWidth |-> 40, feedLinesBeforeItems |-> 0, feedLinesAfterItems |-> 0,
          feedLinesBeforeTotals |-> 1, feedLinesAfterTotals |-> 1,
          feedLinesBeforeFooter |-> 1, feedLinesAfterFooter |-> 2, dividerChar |-> "-"]
    ELSE [lineWidth |-> 44, feedLinesBeforeItems |-> 1, feedLinesAfterItems |-> 1,
          feedLinesBeforeTotals |-> 2, feedLinesAfterTotals |-> 1,
          feedLinesBeforeFooter |-> 2, feedLinesAfterFooter |-> 3, dividerChar |-> "="]

\* getTemplateSettings(template)
GetTemplateSettings(template) ==
    CASE template = "compact" ->
           [lineWidth |-> 40, feedLinesBeforeItems |-> 0, feedLinesAfterItems |-> 0,
            feedLinesBeforeTotals |-> 1, feedLinesAfterTotals |-> 1,
            feedLinesBeforeFooter |-> 1, feedLinesAfterFooter |-> 2, dividerChar |-> "-"]
      [] template = "kitchen" ->
           [lineWidth |-> 44, feedLinesBeforeItems |-> 1, feedLinesAfterItems |-> 1,
            feedLinesBeforeTotals |-> 2, feedLinesAfterTotals |-> 1,
            feedLinesBeforeFooter |-> 2, feedLinesAfterFooter |-> 3, dividerChar |-> "="]
      [] OTHER ->
           [lineWidth |-> 42, feedLinesBeforeItems |-> 0, feedLinesAfterItems |-> 0,
            feedLinesBeforeTotals |-> 1, feedLinesAfterTotals |-> 0,
            feedLinesBeforeFooter |-> 1, feedLinesAfterFooter |-> 3, dividerChar |-> "="]

\* c.repeat(n), for n >= 0
Repeat(c, n) == [k \in 1..n |-> c]

Max(a, b) == IF a >= b THEN a ELSE b

Newline == <<"\n">>

\* printer.addText(text), printer.addFeedLine(n), printer.addTextAlign(align)
AddText(text) == [op |-> "addText", text |-> text, n |-> 0]
AddFeedLine(n) == [op |-> "addFeedLine", text |-> <<>>, n |-> n]
AddTextAlign(align) == [op |-> "addTextAlign", text |-> <<align>>, n |-> 0]

\* mutant: the padding is the width that is left, whatever it is
PaddingUnbounded(lineWidth, left, right) == lineWidth - Len(left) - Len(right)

\* const padding = Math.max(1, lineWidth - leftPart.length - priceText.length)
Padding(lineWidth, left, right) == Max(1, lineWidth - Len(left) - Len(right))

\* `${leftPart}${' '.repeat(padding)}${priceText}\n`
PaddedLine(lineWidth, left, right) ==
    left \o Repeat(" ", Padding(lineWidth, left, right)) \o right \o Newline

\* formatColumns(left, right), right empty for undefined
FormatColumns(lineWidth, left, right) ==
    IF right = <<>> THEN left \o Newline ELSE PaddedLine(lineWidth, left, right)

\* formatDateTime() at the time of the print
DateTimeStr == <<"F", "r", "i", ",", " ", "0", "6", "/", "1", "1", "/", "2", "0", "2", "6", " ", "1", "0", ":", "3", "0", " ", "A", "M">>

\* shopName and orderNumber of the screen
ShopName == <<"S", "a", "m", "'", "s", " ", "\"", "F", "i", "s", "h", "\"", " ", "&", " ", "<", "C", "h", "i", "p", "s", ">">>
OrderNumber == <<"1", "2">>

\* the header: divider, shop name, order line, date, payment status, divider
PrintHeaderFor(settings, dateTimeStr, customer) ==
    LET divider == Repeat(settings.dividerChar, settings.lineWidth)
    IN  <<AddTextAlign("center"),
          AddText(divider \o Newline),
          AddFeedLine(settings.feedLinesBeforeItems),
          AddText(ShopName \o Newline),
          AddFeedLine(1),
          AddText(FormatColumns(settings.lineWidth,
                                <<"O", "r", "d", "e", "r", " ", "#", ":", " ">> \o OrderNumber,
                                IF customer.name # <<>>
                                THEN <<"C", "u", "s", "t", "o", "m", "e", "r", ":", " ">> \o customer.name
                                ELSE <<>>)),
          AddText(FormatColumns(settings.lineWidth, dateTimeStr,
                                IF customer.phone # <<>>
                                THEN <<"P", "h", "o", "n", "e", ":", " ">> \o customer.phone
                                ELSE <<>>)),
          AddText(FormatColumns(settings.lineWidth, <<>>, <<"U", "n", "p", "a", "i", "d">>)),
          AddFeedLine(settings.feedLinesAfterItems),
          AddText(divider \o Newline),
          AddFeedLine(1),
          AddTextAlign("left")>>

\* receiptData.customer of a receipt without customer details
NoCustomer == [name |-> <<>>, phone |-> <<>>]

\* the header of a print at the time of DateTimeStr
PrintHeader(settings) == PrintHeaderFor(settings, DateTimeStr, NoCustomer)

\* mutant: an item without modifiers is given one
ModifiersInferred(item) ==
    IF "modifiers" \in DOMAIN item /\ item.modifiers # <<>>
    THEN item.modifiers
    ELSE <<<<"p", "l", "a", "i", "n">>>>

\* item.modifiers, the empty sequence for an item without the field
ModifiersOf(item) == IF "modifiers" \in DOMAIN item THEN item.modifiers ELSE <<>>

\* item.quantity > 1 ? `${item.quantity}x ` : ''
QuantityText(item) ==
    IF item.quantity > 1 THEN Numeral(item.quantity) \o <<"x", " ">> ELSE <<>>

\* `$${item.price.toFixed(2)}`
PriceText(item) == <<"$">> \o ToFixed2(Money(item.price))

\* `  ${modifier}\n` for each of the modifiers
ModifierLines(modifiers) ==
    [k \in DOMAIN modifiers |-> AddText(<<" ", " ">> \o modifiers[k] \o Newline)]

\* for (const item of receiptData.items), from item k on
RECURSIVE PrintItems(_, _, _)
PrintItems(settings, items, k) ==
    IF k > Len(items) THEN <<>>
    ELSE <<AddText(PaddedLine(settings.lineWidth,
                              QuantityText(items[k]) \o items[k].name,
                              PriceText(items[k])))>>
         \o ModifierLines(ModifiersOf(items[k]))
         \o PrintItems(settings, items, k + 1)

\* `${label}${' '.repeat(lineWidth - width - amount.length - 1)}$${amount}\n`
TotalsLine(settings, label, width, amount) ==
    label \o Repeat(" ", settings.lineWidth - width - Len(ToFixed2(amount)) - 1)
          \o <<"$">> \o ToFixed2(amount) \o Newline

\* the totals of receiptData: Subtotal, GST and Total of calculateTotals
PrintTotals(settings, total) ==
    LET totals == CalculateTotals(total)
    IN  <<AddFeedLine(settings.feedLinesBeforeTotals),
          AddText(Repeat(settings.dividerChar, Min(settings.lineWidth, 24)) \o Newline),
          AddText(TotalsLine(settings, <<"S", "u", "b", "t", "o", "t", "a", "l", ":">>, 8, totals.subtotal)),
          AddText(TotalsLine(settings, <<"G", "S", "T", ":">>, 4, totals.gst)),
          AddText(TotalsLine(settings, <<"T", "o", "t", "a", "l", ":">>, 6, totals.total))>>

\* the product lines, from line k on: indented, priced, or as they are
RECURSIVE PrintProductLines(_, _, _)
PrintProductLines(settings, productLines, k) ==
    IF k > Len(productLines) THEN <<>>
    ELSE LET line == productLines[k]
         IN  <<AddText(
                 IF line.isIndented THEN <<" ", " ">> \o line.text \o Newline
                 ELSE IF line.hasPrice
                 THEN PaddedLine(settings.lineWidth,
                                 (IF line.quantity # <<>>
                                  THEN line.quantity \o <<"x", " ">> ELSE <<>>)
                                     \o line.textWithoutPrice,
                                 line.price)
                 ELSE line.text \o Newline)>>
             \o PrintProductLines(settings, productLines, k + 1)

\* the comparator of the sort of the total lines, as the rank it orders by:
\* Subtotal, GST, the others, Total
TotalLineRank(line) ==
    LET text == LowerText(line.text)
    IN  IF StartsWith(text, <<"s", "u", "b", "t", "o", "t", "a", "l">>) THEN 0
        ELSE IF StartsWith(text, <<"g", "s", "t">>) THEN 1
        ELSE IF StartsWith(text, <<"t", "o", "t", "a", "l">>) THEN 3
        ELSE 2

\* [...totalLines].sort(comparator): the comparator does not order two lines
\* of the rank Subtotal, GST or Total, so the order of these is the engine's
SortedTotalLines(totalLines) ==
    LET n == Len(totalLines)
        orders == {p \in [1..n -> 1..n] : \A a, b \in 1..n : a # b => p[a] # p[b]}
    IN  { [k \in 1..n |-> totalLines[p[k]]] : p \in
            {p \in orders :
                \A a, b \in 1..n :
                    a < b => /\ TotalLineRank(totalLines[p[a]]) <= TotalLineRank(totalLines[p[b]])
                             /\ (TotalLineRank(totalLines[p[a]]) = 2
                                 /\ TotalLineRank(totalLines[p[b]]) = 2) => p[a] < p[b]} }

\* the sorted total lines: priced or as they are
PrintTotalLines(settings, sortedTotalLines) ==
    IF sortedTotalLines = <<>> THEN <<>>
    ELSE <<AddFeedLine(settings.feedLinesBeforeTotals),
           AddText(Repeat(settings.dividerChar, Min(settings.lineWidth, 24)) \o Newline)>>
         \o [k \in DOMAIN sortedTotalLines |->
               LET line == sortedTotalLines[k]
               IN  AddText(IF line.hasPrice
                           THEN PaddedLine(settings.lineWidth, line.textWithoutPrice,
                                           line.price)
                           ELSE line.text \o Newline)]

\* the footer
PrintFooter(settings) ==
    <<AddFeedLine(settings.feedLinesBeforeFooter),
      AddText(Repeat(settings.dividerChar, settings.lineWidth) \o Newline),
      AddTextAlign("center"),
      AddText(<<"T", "h", "a", "n", "k", " ", "y", "o", "u", " ", "f", "o", "r", " ", "y", "o", "u", "r", " ", "p", "u", "r", "c", "h", "a", "s", "e", "!">> \o Newline),
      AddFeedLine(settings.feedLinesAfterFooter)>>

NotProduct(line) == line.isTotalLine
IsProduct(line) == ~line.isTotalLine

InitPrintText ==
    \E value \in StoredTemplates, source \in PrintSources :
        calc = [phase |-> "stored", stored |-> value, source |-> source,
                template |-> "classic", filteredReceiptLines |-> <<>>,
                header |-> <<>>, items |-> <<>>, totals |-> <<>>, footer |-> <<>>]

\* the screen loads the settings: getPrintTemplate, setTemplate(tpl)
LoadTemplate ==
    /\ calc.phase = "stored"
    /\ calc' = [calc EXCEPT !.phase = "loaded",
                            !.template = GetPrintTemplate(calc.stored)]

\* printReceiptAsText(printer, PrinterConstants, receiptData,
\* filteredReceiptLines, orderNumber, shopName, template, isPaid)
PrintReceiptAsText ==
    /\ calc.phase = "loaded"
    /\ LET settings == GetTemplateSettings(calc.template)
           filtered == FilteredReceiptLines(FormatReceiptText(calc.source.lines, 1))
       IN  IF calc.source.kind = "json"
           THEN calc' = [calc EXCEPT
                           !.phase = "printed",
                           !.header = PrintHeader(settings),
                           !.items = PrintItems(settings, calc.source.items, 1),
                           !.totals = PrintTotals(settings, Money(calc.source.total)),
                           !.footer = PrintFooter(settings)]
           ELSE \E sorted \in SortedTotalLines(SelectSeq(filtered, NotProduct)) :
                    calc' = [calc EXCEPT
                               !.phase = "printed",
                               !.filteredReceiptLines = filtered,
                               !.header = PrintHeader(settings),
                               !.items = PrintProductLines(settings,
                                             SelectSeq(filtered, IsProduct), 1),
                               !.totals = PrintTotalLines(settings, sorted),
                               !.footer = PrintFooter(settings)]

InitPrintTextSpec ==
    /\ InitPrintText
    /\ screen = ScreenIdle
    /\ order = OrderIdle
    /\ printers = <<>>
    /\ pc = "unused"
    /\ handler = "none"
    /\ isAutoPrint = FALSE
    /\ savedPrinterMac = NoValue
    /\ target = NoValue
    /\ deviceName = "Printer"
    /\ step = "initialization"
    /\ idx = 0
    /\ copy = 0
    /\ printCopies = 0
    /\ useManualTextPrint = FALSE
    /\ results = <<>>
    /\ alerts = <<>>
    /\ isEpsonPrinting = FALSE
    /\ isPrintingToAll = FALSE
    /\ isTestPrinting = FALSE
    /\ connected = {}
    /\ printerLog = <<>>
    /\ instances = 0
    /\ sent = <<>>

NextPrintText ==
    \/ LoadTemplate /\ UNCHANGED unchangedByCalc
    \/ PrintReceiptAsText /\ UNCHANGED unchangedByCalc

SpecPrint == InitPrintTextSpec /\ [][NextPrintText]_vars

\* the text of the scenario: "2x BURGER\n  no onions\nTotal: $22.00"
ScenarioText == <<LineBurger, LineNoOnions, LineTotal22>>

\* q has p in it
Contains(q, p) ==
    \E k \in 1..(Len(q) - Len(p) + 1) : SubSeq(q, k, k + Len(p) - 1) = p

\* the printed totals have a line with this label and this amount
TotalsCarry(label, amount) ==
    \E k \in DOMAIN calc.totals :
        /\ calc.totals[k].op = "addText"
        /\ StartsWith(LowerText(calc.totals[k].text), label)
        /\ Contains(calc.totals[k].text, amount)

\* the scenario text classifies into the item BURGER, quantity 2, with the
\* modifier "no onions" after it, and the summary line Total, $22.00
ScenarioClassified ==
    LET lines == calc.filteredReceiptLines
    IN  /\ Len(lines) = 3
        /\ ~lines[1].isIndented /\ ~lines[1].isTotalLine
        /\ lines[1].textWithoutPrice = NameBurger
        /\ lines[1].quantity = <<"2">>
        /\ lines[2].isIndented /\ ~lines[2].isTotalLine
        /\ lines[2].text = ModifierNoOnions
        /\ lines[3].isTotalLine
        /\ StartsWith(lines[3].textWithoutPrice, <<"T", "o", "t", "a", "l">>)
        /\ lines[3].price = <<"$", "2", "2", ".", "0", "0">>

\* C18: the text "2x BURGER\n  no onions\nTotal: $22.00" gives one item (BURGER,
\* quantity 2, modifier "no onions") and one summary line (Total, $22.00), and
\* the receipt built from it carries the subtotal 20.00 and the GST 2.00.
C18_ScenarioReceipt ==
    (calc.phase = "printed" /\ calc.source.kind = "text"
                            /\ calc.source.lines = ScenarioText) =>
        /\ ScenarioClassified
        /\ TotalsCarry(<<"s", "u", "b", "t", "o", "t", "a", "l">>, <<"2", "0", ".", "0", "0">>)
        /\ TotalsCarry(<<"g", "s", "t">>, <<"2", ".", "0", "0">>)

\* the number of spaces between the two columns of a line of this width
Gap(width, left, right) ==
    IF width - Len(left) - Len(right) >= 1 THEN width - Len(left) - Len(right) ELSE 1

\* the text of a line with two columns
ColumnText(width, left, right) ==
    left \o [k \in 1..Gap(width, left, right) |-> " "] \o right \o <<"\n">>

\* the place of the line of item k among the printed item lines
RECURSIVE ItemLineIndex(_, _)
ItemLineIndex(items, k) ==
    IF k = 1 THEN 1
    ELSE ItemLineIndex(items, k - 1) + 1 + Len(items[k - 1].modifiers)

\* the width of the template the receipt was printed with
PrintedWidth ==
    CASE calc.template = "compact" -> 40
      [] calc.template = "kitchen" -> 44
      [] OTHER -> 42

\* C19: a printed line with a price has between the quantity prefix and name
\* and the price as many spaces as the line width leaves, and one space when
\* the width leaves less than one.
C19_ColumnAlignment ==
    calc.phase = "printed" =>
        IF calc.source.kind = "json"
        THEN \A k \in DOMAIN calc.source.items :
                LET item == calc.source.items[k]
                IN  calc.items[ItemLineIndex(calc.source.items, k)].text =
                        ColumnText(PrintedWidth,
                                   (IF item.quantity > 1
                                    THEN Numeral(item.quantity) \o <<"x", " ">>
                                    ELSE <<>>) \o item.name,
                                   <<"$">> \o ToFixed2(Money(item.price)))
        ELSE LET productLines == SelectSeq(calc.filteredReceiptLines, IsProduct)
             IN  \A k \in DOMAIN productLines :
                    (~productLines[k].isIndented /\ productLines[k].hasPrice) =>
                        calc.items[k].text =
                            ColumnText(PrintedWidth,
                                       (IF productLines[k].quantity # <<>>
                                        THEN productLines[k].quantity \o <<"x", " ">>
                                        ELSE <<>>) \o productLines[k].textWithoutPrice,
                                       productLines[k].price)

\* C19 witness: a name of 12 characters and a price of 6 at width 42 are 24
\* spaces apart, and a name of 39 characters is one space from its price
C19_Witness ==
    /\ calc.phase = "printed"
    /\ calc.template = "classic"
    /\ calc.source.kind = "json"
    /\ Len(calc.source.items) = 1
    /\ calc.source.items[1].name = NameChickenWrap
    /\ calc.source.items[1].quantity = 1
    /\ calc.items[1].text =
           NameChickenWrap \o [k \in 1..24 |-> " "] \o <<"$", "1", "2", ".", "5", "0">> \o <<"\n">>

C19_WitnessNarrow ==
    /\ calc.phase = "printed"
    /\ calc.source.kind = "text"
    /\ calc.source.lines = <<LineLong>>
    /\ calc.items[1].text = <<"L", "A", "R", "G", "E", " ", "F", "A", "M", "I", "L", "Y", " ", "S", "E", "A", "F", "O", "O", "D", " ", "P", "L", "A", "T", "T", "E", "R", " ", "W", "I", "T", "H", " ", "C", "H", "I", "P", "S", " ", "$", "1", ",", "2", "3", "4", ".", "5", "0">> \o <<"\n">>

\* the layout of a template: classic unless compact or kitchen
TemplateLayout(id) ==
    CASE id = "compact" -> [lineWidth |-> 40, dividerChar |-> "-"]
      [] id = "kitchen" -> [lineWidth |-> 44, dividerChar |-> "="]
      [] OTHER -> [lineWidth |-> 42, dividerChar |-> "=",
                   feedLinesBeforeFooter |-> 1, feedLinesAfterFooter |-> 3]

\* the settings s have the layout of the template id
HasLayout(s, id) ==
    \A field \in DOMAIN TemplateLayout(id) : s[field] = TemplateLayout(id)[field]

\* C20: the template resolver gives for every identifier a layout: classic is
\* width 42, divider "=", 1 feed before the footer and 3 after; compact is
\* width 40, divider "-"; kitchen is width 44, divider "="; any other
\* identifier is classic, and none is an error.
C20_TemplateResolverTotal ==
    /\ HasLayout(GetTemplateSettings(calc.stored), calc.stored)
    /\ calc.phase \in {"loaded", "printed"} =>
            HasLayout(GetTemplateSettings(calc.template), calc.stored)
    /\ calc.phase = "printed" =>
            /\ calc.header[2] =
                   AddText([k \in 1..TemplateLayout(calc.stored).lineWidth |->
                               TemplateLayout(calc.stored).dividerChar] \o <<"\n">>)
            /\ Len(calc.footer) = 5

\* C20 witness: a receipt printed when the settings hold an identifier that is
\* not a template has the classic layout
C20_Witness ==
    /\ calc.phase = "printed"
    /\ calc.stored = "fancy"
    /\ calc.header[2].text = [k \in 1..42 |-> "="] \o <<"\n">>
    /\ calc.footer[1] = AddFeedLine(1)
    /\ calc.footer[5] = AddFeedLine(3)

-----------------------------------------------------------------------------
(* SpecRender: the two renders of a receipt, the HTML document of the system  *)
(* print (generateReceiptHTMLFromJSON, generateReceiptHTML) and the text of   *)
(* printReceiptAsText. An HTML document is the sequence of the values that    *)
(* are interpolated into its template, each with the place it goes to.        *)
(* SpecClock is the same with the clock of formatDateTime advancing.          *)

\* the most items of a structured receipt that is rendered
MaxRenderItems == 2

\* the longest text that is rendered, in lines
MaxRenderLines == 2

\* the minutes the clock advances while the receipt is on the screen
MaxMinutes == 1

NameSpecial == <<"R", "&", "B", "'", "s", " ", "<", "\"", "W", "R", "A", "P", "\"", ">">>
ModifierSpecial == <<"<", "n", "o", ">", " ", "\"", "s", "a", "l", "t", "\"", " ", "&", " ", "'", "o", "i", "l", "'">>
CustomerName == <<"O", "'", "N", "e", "i", "l", " ", "&", " ", "<", "S", "o", "n", "s", ">">>
CustomerPhone == <<"0", "4", "0", "0", " ", "1", "2", "3">>
LineSubtotalUpper == <<"S", "U", "B", "T", "O", "T", "A", "L", ":", " ", "$", "1", "8", ".", "0", "0">>
LineTax == <<"T", "a", "x", ":", " ", "$", "2", ".", "0", "0">>
LineSpecial == <<"2", "x", " ", "R", "&", "B", "'", "s", " ", "<", "\"", "W", "R", "A", "P", "\"", ">", " ", "$", "1", "2", ".", "5", "0">>

\* receiptData.items: an item without modifiers, one with two, one with none
RenderItemChoices ==
    { [name |-> NameSpecial, quantity |-> 2, price |-> 550],
      [name |-> NameBurger, quantity |-> 1, price |-> 1250,
       modifiers |-> <<ModifierNoOnions, ModifierSpecial>>],
      [name |-> NameChickenWrap, quantity |-> 1, price |-> 550, modifiers |-> <<>>] }

RECURSIVE RenderItemLists(_)
RenderItemLists(n) ==
    IF n = 0 THEN {<<>>}
    ELSE LET shorter == RenderItemLists(n - 1)
         IN  shorter \cup
             { Append(l, item) : l \in {k \in shorter : Len(k) = n - 1},
                                 item \in RenderItemChoices }

RenderLineChoices ==
    {LineSubtotal, LineSubtotalUpper, LineTax, LineTotal22, LineSpecial, LineNoOnions}

RECURSIVE RenderTexts(_)
RenderTexts(n) ==
    IF n = 0 THEN {<<>>}
    ELSE LET shorter == RenderTexts(n - 1)
         IN  shorter \cup
             { Append(t, l) : t \in {k \in shorter : Len(k) = n - 1},
                              l \in RenderLineChoices }

\* what is rendered: receiptData (total in cents) or the text of the receipt
RenderSources ==
    { [kind |-> "json", items |-> l, total |-> 2200, customer |-> c, lines |-> <<>>] :
          l \in RenderItemLists(MaxRenderItems),
          c \in {NoCustomer, [name |-> CustomerName, phone |-> CustomerPhone]} }
    \cup
    { [kind |-> "text", items |-> <<>>, total |-> 0, customer |-> NoCustomer,
       lines |-> t] : t \in RenderTexts(MaxRenderLines) }

\* the template identifiers
TemplateIds == {"classic", "compact", "kitchen"}

\* formatDateTime() in minute now of the session
FormatDateTime(now) ==
    <<"F", "r", "i", ",", " ", "0", "6", "/", "1", "1", "/", "2", "0", "2", "6", " ", "1", "0", ":", "3">> \o Numeral(now) \o <<" ", "A", "M">>

\* str.replace(/c/g, entity)
RECURSIVE ReplaceAll(_, _, _)
ReplaceAll(q, c, entity) ==
    IF q = <<>> THEN <<>>
    ELSE (IF Head(q) = c THEN entity ELSE <<Head(q)>>) \o ReplaceAll(Tail(q), c, entity)

\* mutant: the ampersand is replaced after the other four
EscapeAmpersandLast(str) ==
    ReplaceAll(
      ReplaceAll(
        ReplaceAll(
          ReplaceAll(
            ReplaceAll(str, "<", <<"&", "l", "t", ";">>),
            ">", <<"&", "g", "t", ";">>),
          "\"", <<"&", "q", "u", "o", "t", ";">>),
        "'", <<"&", "#", "0", "3", "9", ";">>),
      "&", <<"&", "a", "m", "p", ";">>)

\* escapeHTML(str)
EscapeHTML(str) ==
    ReplaceAll(
      ReplaceAll(
        ReplaceAll(
          ReplaceAll(
            ReplaceAll(str, "&", <<"&", "a", "m", "p", ";">>),
            "<", <<"&", "l", "t", ";">>),
          ">", <<"&", "g", "t", ";">>),
        "\"", <<"&", "q", "u", "o", "t", ";">>),
      "'", <<"&", "#", "0", "3", "9", ";">>)

\* ${escapeHTML(value)} at a place of the template
Escaped(part, value) == [part |-> part, raw |-> value, text |-> EscapeHTML(value)]

\* ${value} at a place of the template
Interpolated(part, value) == [part |-> part, raw |-> value, text |-> value]

\* shop name, order number, date and time, customer, payment status
HtmlHeader(dateTimeStr, customer) ==
    <<Escaped("shop-name", ShopName),
      Escaped("order-number", OrderNumber),
      Escaped("date-time", dateTimeStr)>>
    \o (IF customer.name # <<>> THEN <<Escaped("customer-name", customer.name)>> ELSE <<>>)
    \o (IF customer.phone # <<>> THEN <<Escaped("customer-phone", customer.phone)>> ELSE <<>>)
    \o <<Interpolated("paid", <<"U", "n", "p", "a", "i", "d">>)>>

\* item.modifiers.forEach(modifier => ...)
HtmlModifiers(modifiers) ==
    [k \in DOMAIN modifiers |-> Escaped("modifier", modifiers[k])]

\* receiptData.items.forEach(item => ...), from item k on
RECURSIVE HtmlItems(_, _)
HtmlItems(items, k) ==
    IF k > Len(items) THEN <<>>
    ELSE (IF items[k].quantity > 1
          THEN <<Interpolated("quantity", Numeral(items[k].quantity))>> ELSE <<>>)
         \o <<Escaped("item", items[k].name),
              Interpolated("price", PriceText(items[k]))>>
         \o HtmlModifiers(ModifiersOf(items[k]))
         \o HtmlItems(items, k + 1)

\* totalsHTML of receiptData
HtmlTotals(total) ==
    LET totals == CalculateTotals(total)
    IN  <<Interpolated("subtotal", <<"$">> \o ToFixed2(totals.subtotal)),
          Interpolated("gst", <<"$">> \o ToFixed2(totals.gst)),
          Interpolated("total", <<"$">> \o ToFixed2(totals.total))>>

\* generateReceiptHTMLFromJSON(receiptData, orderNum, paid)
GenerateReceiptHTMLFromJSON(receiptData, dateTimeStr) ==
    [products |-> HtmlHeader(dateTimeStr, receiptData.customer)
                  \o HtmlItems(receiptData.items, 1),
     totals |-> HtmlTotals(Money(receiptData.total))]

\* productLines.forEach(line => ...), from line k on
RECURSIVE HtmlProductLines(_, _)
HtmlProductLines(productLines, k) ==
    IF k > Len(productLines) THEN <<>>
    ELSE LET line == productLines[k]
         IN  (IF line.isIndented THEN <<Escaped("modifier", line.text)>>
              ELSE IF line.hasPrice
              THEN (IF line.quantity # <<>>
                    THEN <<Escaped("quantity", line.quantity)>> ELSE <<>>)
                   \o <<Escaped("item", line.textWithoutPrice),
                        Escaped("price", line.price)>>
              ELSE <<Escaped("line", line.text)>>)
             \o HtmlProductLines(productLines, k + 1)

\* /^TOTAL:/i.test(line.text)
IsHtmlTotal(line) == IsGrandTotal(line.text)

\* sortedTotalLines.forEach(line => ...), from line k on
RECURSIVE HtmlTotalLines(_, _)
HtmlTotalLines(sortedTotalLines, k) ==
    IF k > Len(sortedTotalLines) THEN <<>>
    ELSE LET line == sortedTotalLines[k]
             weight == IF IsHtmlTotal(line) THEN "bold" ELSE "normal"
         IN  (IF line.hasPrice
              THEN <<Escaped(weight, line.textWithoutPrice), Escaped("price", line.price)>>
              ELSE <<Escaped(weight, line.text)>>)
             \o HtmlTotalLines(sortedTotalLines, k + 1)

\* generateReceiptHTML(lines, orderNum, paid), with the order the sort gave
GenerateReceiptHTML(lines, sortedTotalLines, dateTimeStr) ==
    [products |-> HtmlHeader(dateTimeStr, NoCustomer)
                  \o HtmlProductLines(SelectSeq(lines, IsProduct), 1),
     totals |-> HtmlTotalLines(sortedTotalLines, 1)]

\* the comparator of the sort of the total lines
CompareTotalLines(a, b) ==
    LET aText == LowerText(a.text)
        bText == LowerText(b.text)
    IN  IF StartsWith(aText, <<"s", "u", "b", "t", "o", "t", "a", "l">>) THEN -1
        ELSE IF StartsWith(bText, <<"s", "u", "b", "t", "o", "t", "a", "l">>) THEN 1
        ELSE IF StartsWith(aText, <<"g", "s", "t">>) THEN -1
        ELSE IF StartsWith(bText, <<"g", "s", "t">>) THEN 1
        ELSE IF StartsWith(aText, <<"t", "o", "t", "a", "l">>) THEN 1
        ELSE IF StartsWith(bText, <<"t", "o", "t", "a", "l">>) THEN -1
        ELSE 0

\* Array.prototype.sort of the engine: an insertion sort that asks the
\* comparator for (element, pivot) or for (pivot, element)
SortEngines == {"elementFirst", "pivotFirst"}

\* the place after which the pivot goes into the sorted lines, from place j down
RECURSIVE InsertAfter(_, _, _, _)
InsertAfter(engine, sorted, pivot, j) ==
    IF j = 0 THEN 0
    ELSE IF (engine = "elementFirst" /\ CompareTotalLines(sorted[j], pivot) > 0)
            \/ (engine = "pivotFirst" /\ CompareTotalLines(pivot, sorted[j]) < 0)
    THEN InsertAfter(engine, sorted, pivot, j - 1)
    ELSE j

\* [...totalLines].sort(comparator) on this engine, the first k lines
RECURSIVE SortTotalLines(_, _, _)
SortTotalLines(engine, totalLines, k) ==
    IF k = 0 THEN <<>>
    ELSE LET sorted == SortTotalLines(engine, totalLines, k - 1)
             j == InsertAfter(engine, sorted, totalLines[k], Len(sorted))
         IN  SubSeq(sorted, 1, j) \o <<totalLines[k]>> \o SubSeq(sorted, j + 1, Len(sorted))

\* the screen's filteredReceiptLines of what is rendered
RenderedLines(source) == FilteredReceiptLines(FormatReceiptText(source.lines, 1))

NoOutput == <<>>

InitRender(sources) ==
    \E source \in sources, template \in TemplateIds, engine \in SortEngines :
        calc = [phase |-> "render", source |-> source, template |-> template,
                engine |-> engine, now |-> 0,
                html |-> NoOutput, htmlBefore |-> NoOutput,
                text |-> NoOutput, textBefore |-> NoOutput]

\* handlePrint: the HTML document given to Print.printAsync
HandlePrint ==
    /\ calc.phase = "render"
    /\ calc.htmlBefore = NoOutput
    /\ LET dateTimeStr == FormatDateTime(calc.now)
       IN  IF calc.source.kind = "json"
           THEN calc' = [calc EXCEPT
                           !.htmlBefore = calc.html,
                           !.html = <<GenerateReceiptHTMLFromJSON(calc.source,
                                                                      dateTimeStr)>>]
           ELSE LET totalLines == SelectSeq(RenderedLines(calc.source), NotProduct)
                    sorted == SortTotalLines(calc.engine, totalLines, Len(totalLines))
                IN  calc' = [calc EXCEPT
                               !.htmlBefore = calc.html,
                               !.html = <<GenerateReceiptHTML(RenderedLines(calc.source),
                                                              sorted, dateTimeStr)>>]

\* printReceiptAsText: what the printer is given
PrintText ==
    /\ calc.phase = "render"
    /\ calc.textBefore = NoOutput
    /\ LET settings == GetTemplateSettings(calc.template)
           header == PrintHeaderFor(settings, FormatDateTime(calc.now),
                                    calc.source.customer)
       IN  IF calc.source.kind = "json"
           THEN calc' = [calc EXCEPT
                           !.textBefore = calc.text,
                           !.text = <<[header |-> header,
                                       items |-> PrintItems(settings, calc.source.items, 1),
                                       totals |-> PrintTotals(settings,
                                                              Money(calc.source.total)),
                                       footer |-> PrintFooter(settings)]>>]
           ELSE LET totalLines == SelectSeq(RenderedLines(calc.source), NotProduct)
                    sorted == SortTotalLines(calc.engine, totalLines, Len(totalLines))
                IN  calc' = [calc EXCEPT
                               !.textBefore = calc.text,
                               !.text = <<[header |-> header,
                                           items |-> PrintProductLines(settings,
                                                       SelectSeq(RenderedLines(calc.source),
                                                                 IsProduct), 1),
                                           totals |-> PrintTotalLines(settings, sorted),
                                           footer |-> PrintFooter(settings)]>>]

\* a minute passes
Tick ==
    /\ calc.phase = "render"
    /\ calc.now < MaxMinutes
    /\ calc' = [calc EXCEPT !.now = calc.now + 1]

InitRenderWith(sources) ==
    /\ InitRender(sources)
    /\ screen = ScreenIdle
    /\ order = OrderIdle
    /\ printers = <<>>
    /\ pc = "unused"
    /\ handler = "none"
    /\ isAutoPrint = FALSE
    /\ savedPrinterMac = NoValue
    /\ target = NoValue
    /\ deviceName = "Printer"
    /\ step = "initialization"
    /\ idx = 0
    /\ copy = 0
    /\ printCopies = 0
    /\ useManualTextPrint = FALSE
    /\ results = <<>>
    /\ alerts = <<>>
    /\ isEpsonPrinting = FALSE
    /\ isPrintingToAll = FALSE
    /\ isTestPrinting = FALSE
    /\ connected = {}
    /\ printerLog = <<>>
    /\ instances = 0
    /\ sent = <<>>

InitRenderSpec == InitRenderWith(RenderSources)

NextRender ==
    \/ HandlePrint /\ UNCHANGED unchangedByCalc
    \/ PrintText /\ UNCHANGED unchangedByCalc

SpecRender == InitRenderSpec /\ [][NextRender]_vars

\* the receipts rendered while the clock runs: a structured one and a text
ClockSources ==
    { [kind |-> "json",
       items |-> <<[name |-> NameBurger, quantity |-> 1, price |-> 1250,
                    modifiers |-> <<ModifierNoOnions, ModifierSpecial>>]>>,
       total |-> 2200, customer |-> NoCustomer, lines |-> <<>>],
      [kind |-> "text", items |-> <<>>, total |-> 0, customer |-> NoCustomer,
       lines |-> <<LineSpecial, LineTotal22>>] }

InitClockSpec == InitRenderWith(ClockSources)

NextClock ==
    \/ HandlePrint /\ UNCHANGED unchangedByCalc
    \/ PrintText /\ UNCHANGED unchangedByCalc
    \/ Tick /\ UNCHANGED unchangedByCalc

SpecClock == InitClockSpec /\ [][NextClock]_vars

\* the modifiers the source data lists for an item
Listed(item) == IF "modifiers" \in DOMAIN item THEN item.modifiers ELSE <<>>

\* the rows of the items: for each item its own, then one for each modifier
\* listed, in their order
RECURSIVE ExpectedRows(_, _, _)
ExpectedRows(items, k, named) ==
    IF k > Len(items) THEN <<>>
    ELSE <<[part |-> "item", raw |-> IF named THEN items[k].name ELSE <<>>]>>
         \o [j \in DOMAIN Listed(items[k]) |->
                [part |-> "modifier", raw |-> Listed(items[k])[j]]]
         \o ExpectedRows(items, k + 1, named)

IsRowPiece(piece) == piece.part \in {"item", "modifier"}

\* the item and modifier rows of an HTML document
HtmlRows(doc) ==
    LET rows == SelectSeq(doc.products, IsRowPiece)
    IN  [k \in DOMAIN rows |-> [part |-> rows[k].part, raw |-> rows[k].raw]]

\* the item and modifier lines of a printed text: a modifier line is indented
\* by two spaces
TextRows(printed) ==
    [k \in DOMAIN printed.items |->
        LET text == printed.items[k].text
        IN  IF StartsWith(text, <<" ", " ">>)
            THEN [part |-> "modifier", raw |-> SubSeq(text, 3, Len(text) - 1)]
            ELSE [part |-> "item", raw |-> <<>>]]

\* C21: an item without modifiers (no field, or an empty list) has no modifier
\* line in the HTML render or in the text render; the modifier lines are those
\* of the source data, in their order, under their own item.
C21_ModifiersOnlyFromSource ==
    (calc.phase = "render" /\ calc.source.kind = "json") =>
        /\ calc.html # NoOutput =>
               HtmlRows(calc.html[1]) = ExpectedRows(calc.source.items, 1, TRUE)
        /\ calc.text # NoOutput =>
               TextRows(calc.text[1]) = ExpectedRows(calc.source.items, 1, FALSE)

\* C21 witness: an item without the field and one with two modifiers, rendered
\* both ways
C21_Witness ==
    /\ calc.phase = "render"
    /\ calc.source.kind = "json"
    /\ Len(calc.source.items) = 2
    /\ "modifiers" \notin DOMAIN calc.source.items[1]
    /\ Len(Listed(calc.source.items[2])) = 2
    /\ calc.html # NoOutput
    /\ calc.text # NoOutput
    /\ Len(HtmlRows(calc.html[1])) = 4
    /\ Len(calc.text[1].items) = 4

\* a character as it may stand in HTML text
SafeChar(c) ==
    CASE c = "&" -> <<"&", "a", "m", "p", ";">>
      [] c = "<" -> <<"&", "l", "t", ";">>
      [] c = ">" -> <<"&", "g", "t", ";">>
      [] c = "\"" -> <<"&", "q", "u", "o", "t", ";">>
      [] c = "'" -> <<"&", "#", "0", "3", "9", ";">>
      [] OTHER -> <<c>>

\* a string with each of its characters & < > " ' as its entity
RECURSIVE SafeForm(_)
SafeForm(q) == IF q = <<>> THEN <<>> ELSE SafeChar(Head(q)) \o SafeForm(Tail(q))

\* the values interpolated into an HTML document
Pieces(doc) == doc.products \o doc.totals

\* the strings of the receipt that come from the user, the OCR or the AI
RECURSIVE ModifiersOfAll(_, _)
ModifiersOfAll(items, k) ==
    IF k > Len(items) THEN {}
    ELSE {Listed(items[k])[j] : j \in DOMAIN Listed(items[k])}
         \cup ModifiersOfAll(items, k + 1)

UserStrings(source) ==
    {ShopName, OrderNumber}
    \cup {source.items[k].name : k \in DOMAIN source.items}
    \cup ModifiersOfAll(source.items, 1)
    \cup ({source.customer.name, source.customer.phone} \ {<<>>})
    \cup UNION { {RenderedLines(source)[k].text} : k \in DOMAIN RenderedLines(source) }

\* the user strings a document has to show: of a text, the lines as they are
\* shown (a priced line as its name and price)
ShownStrings(source) ==
    IF source.kind = "json" THEN UserStrings(source)
    ELSE {ShopName, OrderNumber}
         \cup UNION { IF ~RenderedLines(source)[k].isIndented
                         /\ RenderedLines(source)[k].hasPrice
                      THEN {RenderedLines(source)[k].textWithoutPrice,
                            RenderedLines(source)[k].price}
                      ELSE {RenderedLines(source)[k].text} :
                      k \in DOMAIN RenderedLines(source) }

\* C22: every string of the receipt that is interpolated into the HTML
\* document is there in escaped form only: each & < > " ' of it is its entity,
\* and the & of an entity is not escaped again.
C22_HtmlEscaped ==
    (calc.phase = "render" /\ calc.html # NoOutput) =>
        /\ \A k \in DOMAIN Pieces(calc.html[1]) :
               Pieces(calc.html[1])[k].text = SafeForm(Pieces(calc.html[1])[k].raw)
        /\ \A str \in ShownStrings(calc.source) :
               \E k \in DOMAIN Pieces(calc.html[1]) : Pieces(calc.html[1])[k].raw = str

\* C22 witness: a document with a name, a modifier and a customer that have
\* the five characters
C22_Witness ==
    /\ calc.phase = "render"
    /\ calc.html # NoOutput
    /\ calc.source.kind = "json"
    /\ calc.source.customer.name = CustomerName
    /\ \E k \in DOMAIN calc.html[1].products :
           /\ calc.html[1].products[k].part = "item"
           /\ calc.html[1].products[k].text =
                  <<"R", "&", "a", "m", "p", ";", "B", "&", "#", "0", "3", "9", ";", "s", " ", "&", "l", "t", ";", "&", "q", "u", "o", "t", ";", "W", "R", "A", "P", "&", "q", "u", "o", "t", ";", "&", "g", "t", ";">>
    /\ \E k \in DOMAIN calc.html[1].products :
           /\ calc.html[1].products[k].part = "modifier"
           /\ calc.html[1].products[k].raw = ModifierSpecial

\* C23: a receipt rendered twice, at any two moments, gives the same HTML
\* document and the same printed text.
C23_RenderDeterministic ==
    /\ (calc.html # NoOutput /\ calc.htmlBefore # NoOutput) => calc.html = calc.htmlBefore
    /\ (calc.text # NoOutput /\ calc.textBefore # NoOutput) => calc.text = calc.textBefore

\* the total lines of a rank, in their order
OfRank(totalLines, rank) ==
    LET HasRank(line) == TotalLineRank(line) = rank
    IN  SelectSeq(totalLines, HasRank)

\* Subtotal lines, then GST lines, then the others, then Total lines, the
\* lines of a kind in their original order
PrecedenceOrder(totalLines) ==
    OfRank(totalLines, 0) \o OfRank(totalLines, 1)
        \o OfRank(totalLines, 2) \o OfRank(totalLines, 3)

\* C25: the summary lines are rendered Subtotal first, then GST, then the
\* others, then Total, lines of the same kind in their original order,
\* whatever the order in which the sort compares them.
C25_SummaryOrder ==
    (calc.phase = "render" /\ calc.source.kind = "text") =>
        LET expected == PrecedenceOrder(SelectSeq(RenderedLines(calc.source), NotProduct))
        IN  /\ calc.html # NoOutput =>
                   calc.html[1].totals = HtmlTotalLines(expected, 1)
            /\ calc.text # NoOutput =>
                   calc.text[1].totals =
                       PrintTotalLines(GetTemplateSettings(calc.template), expected)

\* the printed summary line k of a structured receipt is the label and the
\* amount as two columns
SummaryColumns(k, label, amount) ==
    calc.totals[k].text =
        ColumnText(PrintedWidth, label, <<"$">> \o ToFixed2(amount))

\* C24: in the printed text of a structured receipt the lines Subtotal:, GST:
\* and Total: are built as the item lines are: at least one space after the
\* label and the amount ending at the line width.
C24_SummaryLinesAligned ==
    (calc.phase = "printed" /\ calc.source.kind = "json") =>
        LET totals == CalculateTotals(Money(calc.source.total))
        IN  /\ SummaryColumns(3, <<"S", "u", "b", "t", "o", "t", "a", "l", ":">>, totals.subtotal)
            /\ SummaryColumns(4, <<"G", "S", "T", ":">>, totals.gst)
            /\ SummaryColumns(5, <<"T", "o", "t", "a", "l", ":">>, totals.total)

-----------------------------------------------------------------------------
(* The receipt screen once more: how often it prints and saves by itself.     *)

\* C26: the auto-print calls handleEpsonPrint(true) at most once for a new
\* receipt and never for an existing one, whatever the order of renders,
\* effect runs, the read of the auto-print setting and the 500 ms timer.
C26_AutoPrintAtMostOnce ==
    /\ screen.autoPrintCalls <= 1
    /\ screen.isExistingReceipt => screen.autoPrintCalls = 0

\* C27: saveReceipt is called at most once for a new receipt and never for an
\* existing one, whatever the order of auto-save effect runs, taps on the save
\* button and renders.
C27_SavedAtMostOnce ==
    /\ screen.saveCalls <= 1
    /\ screen.isExistingReceipt => screen.saveCalls = 0

-----------------------------------------------------------------------------
(* The print handlers' connections *)

\* C28: every printer connection a handler opened with printer.connect() is closed
\* with printer.disconnect() by the time the handler has finished, whether it
\* finished by succeeding or by failing at any step after the connection.
C28_ConnectionsClosed == pc = "done" => connected = {}

\* a handler that finished after a step failed on an open connection
C28_LeftConnected ==
    /\ pc = "done"
    /\ connected # {}
    /\ \E i \in DOMAIN printerLog :
          /\ printerLog[i].op \in {"connect5000", "connect"}
          /\ printerLog[i].out = Ok
    /\ \E i \in DOMAIN printerLog : printerLog[i].out # Ok

-----------------------------------------------------------------------------
(* handleSimpleTestPrint *)

unchangedTest == <<printers, isAutoPrint, copy, printCopies, useManualTextPrint,
                   isEpsonPrinting, idx, results, isPrintingToAll, sent>>

NoConstantsAlert == Alert("PrinterConstants Not Found", "", <<>>, <<>>)
TestSuccessAlert == Alert("Success", "", <<"Test", "print", "sent">>, <<>>)

\* onPress={handleSimpleTestPrint}, up to await getEpsonPrinterMac()
StartTestPrint ==
    /\ pc = "idle"
    /\ handler' = "test"
    /\ pc' = "findPrinter"
    /\ UNCHANGED <<savedPrinterMac, target, deviceName, step, alerts, isTestPrinting,
                   connected, printerLog, instances>>
    /\ UNCHANGED unchangedTest

\* the saved default printer, else the first discovered one; if (!target) return
TestFindPrinter ==
    /\ pc = "findPrinter" /\ handler = "test"
    /\ \E mac \in SavedMacs :
        /\ savedPrinterMac' = mac
        /\ target' = PickTarget(mac)
        /\ deviceName' = PickDeviceName(mac)
        /\ IF NoTarget(PickTarget(mac))
           THEN /\ alerts' = Append(alerts, NoPrintersAlert)
                /\ pc' = "done"
           ELSE /\ pc' = "loadModule"
                /\ UNCHANGED alerts
    /\ UNCHANGED <<handler, step, isTestPrinting, connected, printerLog, instances>>
    /\ UNCHANGED unchangedTest

\* if (!target || target.trim() === '') throw new Error('Invalid printer target'),
\* after setIsTestPrinting(true) and before the try block
ThrowsBeforeTry(t) == Trim(t) = ""

\* the catch block of handleSimpleTestPrint, entered with the error thrown at `step`
TestCatch(e) ==
    /\ isTestPrinting' = FALSE
    /\ alerts' = Append(alerts, Alert("Test Print Failed", step, EpsonErrorMessage(e), <<>>))
    /\ pc' = "done"

\* the module import, the two missing-module returns, setIsTestPrinting(true), the
\* target validation and new Printer
TestLoadModule ==
    /\ pc = "loadModule" /\ handler = "test"
    /\ \E mod \in {"none", "noConstants", "loaded"} :
        IF mod = "none"
        THEN /\ alerts' = Append(alerts, NoModuleAlert)
             /\ pc' = "done"
             /\ UNCHANGED <<isTestPrinting, step, deviceName, instances, printerLog>>
        ELSE IF mod = "noConstants"
        THEN /\ alerts' = Append(alerts, NoConstantsAlert)
             /\ pc' = "done"
             /\ UNCHANGED <<isTestPrinting, step, deviceName, instances, printerLog>>
        ELSE IF ThrowsBeforeTry(target)
        THEN /\ isTestPrinting' = TRUE
             /\ pc' = "rejected"
             /\ deviceName' = ValidDeviceName(deviceName)
             /\ UNCHANGED <<alerts, step, instances, printerLog>>
        ELSE /\ isTestPrinting' = TRUE
             /\ deviceName' = ValidDeviceName(deviceName)
             /\ instances' = instances + 1
             /\ printerLog' = <<>>
             /\ pc' = "connect"
             /\ step' = "connecting to printer"
             /\ UNCHANGED alerts
    /\ UNCHANGED <<handler, savedPrinterMac, target, connected>>
    /\ UNCHANGED unchangedTest

\* throw new Error(`Connection failed: ${connectError?.message || ...}`)
ConnectionFailed(e) == [message |-> <<"Connection", "failed:">> \o ErrorText(e)]

\* await printer.connect(5000), and what its catch decides
TestConnect ==
    /\ pc = "connect" /\ handler = "test"
    /\ \E out \in Outcomes :
        /\ printerLog' = Append(printerLog, Call("connect5000", out))
        /\ IF out = Ok
           THEN /\ connected' = connected \cup {CurrentTarget}
                /\ pc' = "addText"
                /\ step' = "adding header text"
                /\ UNCHANGED <<alerts, isTestPrinting>>
           ELSE IF IsConnectParameterError(out)
           THEN /\ pc' = "connectRetry"
                /\ UNCHANGED <<connected, step, alerts, isTestPrinting>>
           ELSE /\ TestCatch(ConnectionFailed(out))
                /\ UNCHANGED <<connected, step>>
    /\ UNCHANGED <<handler, savedPrinterMac, target, deviceName, instances>>
    /\ UNCHANGED unchangedTest

\* await printer.connect() in the catch of the first connect
TestConnectRetry ==
    /\ pc = "connectRetry" /\ handler = "test"
    /\ \E out \in Outcomes :
        /\ printerLog' = Append(printerLog, Call("connect", out))
        /\ IF out = Ok
           THEN /\ connected' = connected \cup {CurrentTarget}
                /\ pc' = "addText"
                /\ step' = "adding header text"
                /\ UNCHANGED <<alerts, isTestPrinting>>
           ELSE /\ TestCatch(out)
                /\ UNCHANGED <<connected, step>>
    /\ UNCHANGED <<handler, savedPrinterMac, target, deviceName, instances>>
    /\ UNCHANGED unchangedTest

\* the addText / addFeedLine calls of the test page; the addTextAlign calls between
\* them swallow their errors
TestAddText ==
    /\ pc = "addText" /\ handler = "test"
    /\ \E out \in Outcomes :
        /\ printerLog' = Append(printerLog, Call("addText", out))
        /\ IF out = Ok
           THEN /\ pc' = "cut"
                /\ step' = "adding paper cut"
                /\ UNCHANGED <<alerts, isTestPrinting>>
           ELSE /\ TestCatch(out)
                /\ UNCHANGED step
    /\ UNCHANGED <<handler, savedPrinterMac, target, deviceName, instances, connected>>
    /\ UNCHANGED unchangedTest

\* try { await printer.addCut() } catch (cutError) {}
TestCut ==
    /\ pc = "cut" /\ handler = "test"
    /\ \E out \in Outcomes :
        printerLog' = Append(printerLog, Call("addCut", out))
    /\ pc' = "send"
    /\ step' = "sending data to printer"
    /\ UNCHANGED <<handler, savedPrinterMac, target, deviceName, instances, connected,
                   alerts, isTestPrinting>>
    /\ UNCHANGED unchangedTest

\* await printer.sendData()
TestSend ==
    /\ pc = "send" /\ handler = "test"
    /\ \E out \in Outcomes :
        /\ printerLog' = Append(printerLog, Call("sendData", out))
        /\ IF out = Ok
           THEN /\ pc' = "disconnect"
                /\ step' = "disconnecting from printer"
                /\ UNCHANGED <<alerts, isTestPrinting>>
           ELSE /\ TestCatch(out)
                /\ UNCHANGED step
    /\ UNCHANGED <<handler, savedPrinterMac, target, deviceName, instances, connected>>
    /\ UNCHANGED unchangedTest

\* await printer.disconnect(), the success alert and setIsTestPrinting(false)
TestDisconnect ==
    /\ pc = "disconnect" /\ handler = "test"
    /\ \E out \in Outcomes :
        /\ printerLog' = Append(printerLog, Call("disconnect", out))
        /\ IF out = Ok
           THEN /\ connected' = connected \ {CurrentTarget}
                /\ alerts' = Append(alerts, TestSuccessAlert)
                /\ isTestPrinting' = FALSE
                /\ pc' = "done"
           ELSE /\ TestCatch(out)
                /\ UNCHANGED connected
    /\ UNCHANGED <<handler, savedPrinterMac, target, deviceName, instances, step>>
    /\ UNCHANGED unchangedTest

NextTest ==
    \/ StartTestPrint /\ UNCHANGED unchangedByPrint
    \/ TestFindPrinter /\ UNCHANGED unchangedByPrint
    \/ TestLoadModule /\ UNCHANGED unchangedByPrint
    \/ TestConnect /\ UNCHANGED unchangedByPrint
    \/ TestConnectRetry /\ UNCHANGED unchangedByPrint
    \/ TestAddText /\ UNCHANGED unchangedByPrint
    \/ TestCut /\ UNCHANGED unchangedByPrint
    \/ TestSend /\ UNCHANGED unchangedByPrint
    \/ TestDisconnect /\ UNCHANGED unchangedByPrint

SpecTest == Init /\ [][NextTest]_vars

\* the handler that ran has finished: it returned, or its promise was rejected
HandlerFinished == pc \in {"done", "rejected"}

\* C29: a busy flag that a print handler set to true is false again by the time
\* the handler has finished, on every exit path: the early returns, the success
\* path and every thrown error.
C29_BusyFlagsCleared ==
    HandlerFinished => ~isEpsonPrinting /\ ~isPrintingToAll /\ ~isTestPrinting

\* the test print left by the throw that precedes its try block
C29_StuckBusy == handler = "test" /\ pc = "rejected" /\ isTestPrinting

-----------------------------------------------------------------------------
(* The capture screen: processImage, processImageWithBase64, processSingleImage
   and processAllImages (app/(tabs)/capture.tsx), one capture-processing attempt *)

\* the most pages captured for one order in multi-page mode
MaxImages == 2

\* the highest value the day's counter starts the attempt with
MaxCounter == 101

\* UTF-16 code units of the strings of the model: unreserved characters, characters
\* that are percent-encoded, and the two halves of a surrogate pair
HighSurrogate == "D83C"
LowSurrogate == "DF54"
UriUnreserved == {"T", "e", "a", "x", "t", "2", "u", "D", "8", "3", "C", "F", "i", "l",
                  "d", "r", "o", "c", "s", "m", "f", "n", "N", "U", "R", "I"}

\* the percent-encoding of the UTF-8 octets of a character outside the unreserved set
PercentEncoded(c) ==
    CASE c = " "  -> <<"%", "2", "0">>
      [] c = ":"  -> <<"%", "3", "A">>
      [] c = "{"  -> <<"%", "7", "B">>
      [] c = "}"  -> <<"%", "7", "D">>
      [] c = "\\" -> <<"%", "5", "C">>
      [] OTHER    -> <<"%", "3", "F">>

\* the percent-encoding of the four UTF-8 octets of a surrogate pair
PairEncoded == <<"%", "F", "0", "%", "9", "F", "%", "8", "D", "%", "9", "4">>

Returned(q) == [threw |-> FALSE, value |-> q]
URIError == [threw |-> TRUE, value |-> <<"U", "R", "I", " ", "m", "a", "l", "f", "o", "r", "m", "e", "d">>]

\* encodeURIComponent (ECMAScript Encode): an unreserved code unit is copied, a lone
\* low surrogate and a high surrogate without a low one after it throw URIError,
\* anything else is percent-encoded
RECURSIVE EncodeFrom(_, _, _)
EncodeFrom(q, k, acc) ==
    IF k > Len(q) THEN Returned(acc)
    ELSE IF q[k] \in UriUnreserved THEN EncodeFrom(q, k + 1, Append(acc, q[k]))
    ELSE IF q[k] = LowSurrogate THEN URIError
    ELSE IF q[k] # HighSurrogate THEN EncodeFrom(q, k + 1, acc \o PercentEncoded(q[k]))
    ELSE IF k + 1 > Len(q) THEN URIError
    ELSE IF q[k + 1] # LowSurrogate THEN URIError
    ELSE EncodeFrom(q, k + 2, acc \o PairEncoded)

EncodeURIComponent(q) == EncodeFrom(q, 1, <<>>)

\* JSON.stringify of a string value: well-formed, a lone surrogate is written as
\* its \uXXXX escape
RECURSIVE JsonEscape(_)
JsonEscape(q) ==
    IF q = <<>> THEN <<>>
    ELSE IF Head(q) = HighSurrogate /\ Len(q) > 1 /\ q[2] = LowSurrogate
    THEN <<q[1], q[2]>> \o JsonEscape(Tail(Tail(q)))
    ELSE IF Head(q) \in {HighSurrogate, LowSurrogate}
    THEN <<"\\", "u">> \o (IF Head(q) = HighSurrogate THEN <<"D", "8", "3", "C">>
                                                     ELSE <<"D", "F", "5", "4">>)
         \o JsonEscape(Tail(q))
    ELSE <<Head(q)>> \o JsonEscape(Tail(q))

\* what the OCR call resolves with: the text of the vision mode, the ReceiptData of
\* the generative mode (its one text field), or a thrown error
TextTea == <<"T", "e", "a", " ", "2">>
TextPair == <<"T", "e", "a", HighSurrogate, LowSurrogate>>
TextLoneHigh == <<"T", "e", "a", HighSurrogate>>
TextLoneLow == <<LowSurrogate, "T", "e", "a">>
OcrTexts == {<<>>, TextTea, TextPair, TextLoneHigh, TextLoneLow}
OcrFailedMessage == <<"O", "C", "R", " ", "f", "a", "i", "l", "e", "d">>
OcrOutcomes(mode) ==
    {[kind |-> "thrown", text |-> OcrFailedMessage], [kind |-> "thrown", text |-> <<>>]}
    \cup (IF mode = "generative"
          THEN {[kind |-> "object", text |-> t] : t \in OcrTexts}
          ELSE {[kind |-> "string", text |-> t] : t \in OcrTexts})

\* typeof extractedData === 'string' ? extractedData : JSON.stringify(extractedData)
ExtractedDataString(data) ==
    IF data.kind = "string" THEN data.text
    ELSE <<"{">> \o JsonEscape(data.text) \o <<"}">>

NoTextExtracted == <<"N", "o", " ", "t", "e", "x", "t">>
FailedToExtract == <<"F", "a", "i", "l", "e", "d", ":", " ">>
FailedToProcess == <<"F", "a", "i", "l", "e", "d">>

\* extractedDataString || 'No text extracted'
OrDefault(q, default) == IF q = <<>> THEN default ELSE q

\* getNextOrderNumber(), from its call to its result: the counter after INCR, or
\* STARTING_ORDER_NUMBER when Redis is not configured or a command failed
GetNextOrderNumber(counter, redis) ==
    IF redis = "ok"
    THEN [counter |-> counter + 1, value |-> counter + 1]
    ELSE [counter |-> counter, value |-> STARTING_ORDER_NUMBER]

RedisOutcomes == {"ok", "failed"}

InitCapture ==
    \E multiPageMode \in BOOLEAN, counter \in (STARTING_ORDER_NUMBER - 1)..MaxCounter :
        calc = [phase |-> "capture", pc |-> "camera", multiPageMode |-> multiPageMode,
                capturedImages |-> 0, fn |-> "none", outer |-> FALSE,
                data |-> [kind |-> "none", text |-> <<>>], error |-> <<>>,
                counter |-> counter, calls |-> <<>>, pushes |-> <<>>,
                processing |-> FALSE, rejected |-> FALSE]

\* processImageWithBase64: multi-page mode keeps the image and asks, single mode
\* calls processSingleImage
ProcessImageWithBase64(c) ==
    IF c.multiPageMode
    THEN [c EXCEPT !.capturedImages = @ + 1, !.pc = "alert"]
    ELSE [c EXCEPT !.fn = "single", !.processing = TRUE, !.pc = "extract"]

\* the camera or the picker hands over an image with its base64 data
TakePicture ==
    /\ calc.pc = "camera"
    /\ calc' = ProcessImageWithBase64(calc)

\* processImage(uri): the file is read to base64, or the read fails
ProcessImage ==
    /\ calc.pc = "camera"
    /\ \E read \in {"ok", "missing", "empty"} :
        IF read = "ok"
        THEN calc' = ProcessImageWithBase64([calc EXCEPT !.processing = TRUE,
                                                         !.outer = TRUE])
        ELSE calc' = [calc EXCEPT !.processing = TRUE, !.outer = TRUE,
                                  !.error = FailedToProcess, !.pc = "imageCatch"]

\* the alert's "Add More": capturing goes on
AddMore ==
    /\ calc.pc = "alert" /\ calc.capturedImages < MaxImages
    /\ calc' = [calc EXCEPT !.pc = "camera"]

\* the alert's "Done": processAllImages(newImages)
Done ==
    /\ calc.pc = "alert"
    /\ calc' = [calc EXCEPT !.fn = "all", !.processing = TRUE, !.pc = "extract"]

\* await getOCRMode(); await extractTextFromImageWithMode(...)
Extract ==
    /\ calc.pc = "extract"
    /\ \E mode \in {"vision", "generative"} : \E data \in OcrOutcomes(mode) :
        IF data.kind = "thrown"
        THEN calc' = [calc EXCEPT !.error = data.text, !.pc = "catch"]
        ELSE calc' = [calc EXCEPT !.data = data, !.pc = "orderNumber"]

\* the rest of the try block: await getNextOrderNumber(), the params, router.push
PushReceipt ==
    /\ calc.pc = "orderNumber"
    /\ \E redis \in RedisOutcomes :
        LET next == GetNextOrderNumber(calc.counter, redis)
            extractedText ==
                EncodeURIComponent(OrDefault(ExtractedDataString(calc.data), NoTextExtracted))
        IN  IF extractedText.threw
            THEN calc' = [calc EXCEPT !.counter = next.counter,
                                      !.calls = Append(@, next.value),
                                      !.error = extractedText.value,
                                      !.pc = "catch"]
            ELSE calc' = [calc EXCEPT !.counter = next.counter,
                                      !.calls = Append(@, next.value),
                                      !.pushes = Append(@, [extractedText |-> extractedText.value,
                                                            orderNumber |-> next.value]),
                                      !.pc = "finally"]

\* the catch block: the alert, await getNextOrderNumber(), router.push
CatchPush ==
    /\ calc.pc = "catch"
    /\ \E redis \in RedisOutcomes :
        LET next == GetNextOrderNumber(calc.counter, redis)
            errorMessage == OrDefault(calc.error, FailedToProcess)
            extractedText == EncodeURIComponent(FailedToExtract \o errorMessage)
        IN  IF extractedText.threw
            THEN calc' = [calc EXCEPT !.counter = next.counter,
                                      !.calls = Append(@, next.value),
                                      !.error = extractedText.value,
                                      !.rejected = TRUE,
                                      !.pc = "finally"]
            ELSE calc' = [calc EXCEPT !.counter = next.counter,
                                      !.calls = Append(@, next.value),
                                      !.pushes = Append(@, [extractedText |-> extractedText.value,
                                                            orderNumber |-> next.value]),
                                      !.pc = "finally"]

\* finally { setProcessing(false); setCapturedImages([]) }
Finally ==
    /\ calc.pc = "finally"
    /\ calc' = [calc EXCEPT !.processing = FALSE, !.capturedImages = 0,
                           !.pc = IF calc.rejected /\ calc.outer THEN "imageCatch"
                                                                ELSE "done"]

\* the catch block of processImage: the alert, await getNextOrderNumber(), router.push
ImageCatch ==
    /\ calc.pc = "imageCatch"
    /\ \E redis \in RedisOutcomes :
        LET next == GetNextOrderNumber(calc.counter, redis)
            extractedText ==
                EncodeURIComponent(FailedToExtract \o OrDefault(calc.error, FailedToProcess))
        IN  calc' = [calc EXCEPT !.counter = next.counter,
                                 !.calls = Append(@, next.value),
                                 !.pushes = Append(@, [extractedText |-> extractedText.value,
                                                       orderNumber |-> next.value]),
                                 !.processing = FALSE,
                                 !.pc = "done"]

InitCaptureSpec ==
    /\ InitCapture
    /\ screen = ScreenIdle
    /\ order = OrderIdle
    /\ printers = <<>>
    /\ pc = "unused"
    /\ handler = "none"
    /\ isAutoPrint = FALSE
    /\ savedPrinterMac = NoValue
    /\ target = NoValue
    /\ deviceName = "Printer"
    /\ step = "initialization"
    /\ idx = 0
    /\ copy = 0
    /\ printCopies = 0
    /\ useManualTextPrint = FALSE
    /\ results = <<>>
    /\ alerts = <<>>
    /\ isEpsonPrinting = FALSE
    /\ isPrintingToAll = FALSE
    /\ isTestPrinting = FALSE
    /\ connected = {}
    /\ printerLog = <<>>
    /\ instances = 0
    /\ sent = <<>>

NextCapture ==
    \/ TakePicture /\ UNCHANGED unchangedByCalc
    \/ ProcessImage /\ UNCHANGED unchangedByCalc
    \/ AddMore /\ UNCHANGED unchangedByCalc
    \/ Done /\ UNCHANGED unchangedByCalc
    \/ Extract /\ UNCHANGED unchangedByCalc
    \/ PushReceipt /\ UNCHANGED unchangedByCalc
    \/ CatchPush /\ UNCHANGED unchangedByCalc
    \/ Finally /\ UNCHANGED unchangedByCalc
    \/ ImageCatch /\ UNCHANGED unchangedByCalc

SpecCapture == InitCaptureSpec /\ [][NextCapture]_vars

\* C30: a capture-processing attempt that navigated to the receipt screen called
\* getNextOrderNumber exactly once, and the order number it passed to the screen
\* is the value that call returned.
C30_OneOrderNumberPerAttempt ==
    (calc.pc = "done" /\ calc.pushes # <<>>) =>
        /\ Len(calc.calls) = 1
        /\ Len(calc.pushes) = 1
        /\ calc.pushes[1].orderNumber = calc.calls[1]

\* an attempt that took a number, failed to encode the text and took another
C30_TwoNumbersTaken ==
    /\ calc.pc = "done"
    /\ Len(calc.pushes) = 1
    /\ Len(calc.calls) = 2

=============================================================================
